---------------------------- MODULE Spec2Model ----------------------------
(***************************************************************************)
(* Smart Suspender background service worker (src/unnamed/part_001).       *)
(*                                                                         *)
(* The worker is a single-threaded event loop: every handler runs to its   *)
(* next await without interruption, and other handlers may run while a     *)
(* host call (tabs, storage) is pending.  Each action below is one         *)
(* such uninterrupted run: an event handler up to its first await, or the  *)
(* continuation of an async function from one await to the next.           *)
(*                                                                         *)
(* Strings are sequences of one-character strings, so that startsWith,     *)
(* split, trim and the whitelist's regular expression are computed, not    *)
(* assumed.  Times are milliseconds, as Date.now() gives them.             *)
(***************************************************************************)
EXTENDS Integers, Sequences, FiniteSets, TLC

\* ------------------------------------------------------------------------
\* Bounds of the model
\* ------------------------------------------------------------------------
\* Highest tab id the browser hands out (tabs 1 and 2 are open at start).
MaxTabId == 4
\* Number of requests (suspendTab, unsuspendTab, saveSettings, init) received.
MaxCalls == 2
\* Number of times the user closes or navigates a tab.
MaxEvents == 1
\* Number of times the clock advances.
MaxTicks == 1
\* Scan triggers counted while one scan is in flight (more are counted as this).
MaxTrig == 5
\* Longest whitelist text enumerated character by character.
MaxWlLen == 3
\* Longest probe URL enumerated character by character.
MaxUrlLen == 2

\* ------------------------------------------------------------------------
\* Program constants
\* ------------------------------------------------------------------------
DEFAULT_AUTO_SUSPEND_TIME == 30
MsPerMinute == 60000
FloorDelayMs == 5000
DefaultDelayMs == 300000
CeilingMs == 900000

DEFAULT_SETTINGS ==
    [ autoSuspend     |-> TRUE,
      autoSuspendTime |-> DEFAULT_AUTO_SUSPEND_TIME,
      ignorePinned    |-> TRUE,
      ignoreAudio     |-> TRUE,
      ignoreActive    |-> TRUE,
      urlWhitelist    |-> << >> ]

\* ------------------------------------------------------------------------
\* Strings
\* ------------------------------------------------------------------------
StartsWith(s, p) ==
    /\ Len(s) >= Len(p)
    /\ \A i \in 1..Len(p) : s[i] = p[i]

Drop(s, n) == IF n >= Len(s) THEN << >> ELSE SubSeq(s, n + 1, Len(s))

Min(a, b) == IF a <= b THEN a ELSE b
Max(a, b) == IF a >= b THEN a ELSE b

\* All sequences over alphabet A of length at most n.
RECURSIVE StringsUpTo(_, _)
StringsUpTo(A, n) ==
    IF n = 0 THEN { << >> }
    ELSE LET shorter == StringsUpTo(A, n - 1)
         IN  shorter \cup { Append(s, c) : s \in shorter, c \in A }

\* The page addresses of the model.  chrome.runtime.getURL("suspended.html")
\* is the host's constant chrome-extension://<id>/suspended.html, written
\* ExtBase here; it starts with neither "http" nor "file:".
HttpPrefix == <<"h", "t", "t", "p">>
FilePrefix == <<"f", "i", "l", "e", ":">>
ExtBase    == <<"x", ":", "s">>
UrlA       == <<"h", "t", "t", "p", ":", "a">>
UrlB       == <<"h", "t", "t", "p", "s", ":", "b">>
UrlFile    == <<"f", "i", "l", "e", ":", "c">>
UrlChrome  == <<"c", "h", "r", ":", "n">>
NoUrl      == << >>

\* URLSearchParams percent-encodes the reserved characters of a value.
RECURSIVE encodeParam(_)
encodeParam(s) ==
    IF s = << >> THEN << >>
    ELSE (IF Head(s) = ":" THEN <<"%", "3", "A">> ELSE <<Head(s)>>)
         \o encodeParam(Tail(s))

getSuspendedUrl(originalUrl, title) ==
    ExtBase \o <<"?", "u", "=">> \o encodeParam(originalUrl)
            \o (IF title # << >> THEN <<"&", "t", "=">> \o encodeParam(title)
                ELSE << >>)

isExtensionSuspendedPage(url) == StartsWith(url, ExtBase)

\* ------------------------------------------------------------------------
\* Whitelist (src/unnamed/part_001:47-73)
\* ------------------------------------------------------------------------
\* Newline is the one-element string "NL"; "CR" is carriage return.
IsSpace(c) == c \in {" ", "NL", "CR"}

RECURSIVE trimLeft(_)
trimLeft(s) ==
    IF s # << >> /\ IsSpace(Head(s)) THEN trimLeft(Tail(s)) ELSE s

RECURSIVE trimRight(_)
trimRight(s) ==
    IF s # << >> /\ IsSpace(s[Len(s)])
    THEN trimRight(SubSeq(s, 1, Len(s) - 1)) ELSE s

trim(s) == trimRight(trimLeft(s))

\* s.split(/\r?\n|,/): the pieces of s between separators, in order.
RECURSIVE splitEntries(_, _)
splitEntries(s, cur) ==
    IF s = << >> THEN << cur >>
    ELSE IF Len(s) >= 2 /\ s[1] = "CR" /\ s[2] = "NL"
         THEN << cur >> \o splitEntries(Drop(s, 2), << >>)
    ELSE IF Head(s) \in {"NL", ","}
         THEN << cur >> \o splitEntries(Tail(s), << >>)
    ELSE splitEntries(Tail(s), Append(cur, Head(s)))

\* s.split("*")
RECURSIVE splitStar(_, _)
splitStar(s, cur) ==
    IF s = << >> THEN << cur >>
    ELSE IF Head(s) = "*" THEN << cur >> \o splitStar(Tail(s), << >>)
    ELSE splitStar(Tail(s), Append(cur, Head(s)))

whitelistEntries(urlWhitelist) ==
    LET parts   == splitEntries(urlWhitelist, << >>)
        trimmed == [i \in 1..Len(parts) |-> trim(parts[i])]
    IN  SelectSeq(trimmed, LAMBDA e : e # << >>)

\* The character class of the replace() at line 66 is closed by its first
\* unescaped "]": /[.*+?^${}()|[\\]\\]/ matches one character of RegexClass
\* followed by a backslash and a "]", and nothing shorter.
RegexClass == {".", "*", "+", "?", "^", "$", "{", "}", "(", ")", "|", "[", "\\"}

RECURSIVE escapeSegment(_)
escapeSegment(s) ==
    IF s = << >> THEN << >>
    ELSE IF Len(s) >= 3 /\ s[1] \in RegexClass /\ s[2] = "\\" /\ s[3] = "]"
         THEN <<"\\", s[1], s[2], s[3]>> \o escapeSegment(Drop(s, 3))
    ELSE <<Head(s)>> \o escapeSegment(Tail(s))

\* The source text of the regular expression built for a pattern:
\* "^" + segments.map(escape).join(".*") + "$", kept as a sequence of
\* tokens with the joining ".*" as the single token "STAR".
RECURSIVE joinStar(_)
joinStar(segs) ==
    IF Len(segs) = 1 THEN escapeSegment(segs[1])
    ELSE escapeSegment(segs[1]) \o <<"STAR">> \o joinStar(Tail(segs))

regexSource(pattern) == joinStar(splitStar(pattern, << >>))

\* new RegExp(source) throws on a source that is no regular expression.  Of
\* the characters of the model's alphabets, an unmatched "(" is the one that
\* makes it throw.
regexThrows(src) == \E i \in 1..Len(src) : src[i] = "("

\* re.test(url) for a source made of literals, "." (any character) and the
\* joining ".*"; anchored at both ends by "^" and "$".
RECURSIVE regexTest(_, _)
regexTest(src, url) ==
    IF src = << >> THEN url = << >>
    ELSE IF Head(src) = "STAR"
         THEN \/ regexTest(Tail(src), url)
              \/ (url # << >> /\ regexTest(src, Tail(url)))
    ELSE IF Head(src) = "."
         THEN url # << >> /\ regexTest(Tail(src), Tail(url))
    ELSE url # << >> /\ Head(url) = Head(src)
         /\ regexTest(Tail(src), Tail(url))

\* wl.some(...): patterns are tried in order; the first match ends the
\* search, and a pattern that is no regular expression throws when reached.
RECURSIVE somePattern(_, _)
somePattern(wl, url) ==
    IF wl = << >> THEN "no"
    ELSE IF Head(wl) = <<"*">> THEN "yes"
    ELSE IF regexThrows(regexSource(Head(wl))) THEN "throw"
    ELSE IF regexTest(regexSource(Head(wl)), url) THEN "yes"
    ELSE somePattern(Tail(wl), url)

\* "yes", "no", or "throw" when building a pattern's RegExp throws.
isWhitelisted(url, s) ==
    LET wl == whitelistEntries(s.urlWhitelist)
    IN  IF wl = << >> THEN "no" ELSE somePattern(wl, url)

\* ------------------------------------------------------------------------
\* Eligibility (src/unnamed/part_001:138-149)
\* ------------------------------------------------------------------------
\* tab.id is falsy for id 0 and for a missing tab.
eligibleForSuspend(tab, reason, s) ==
    IF tab.id = 0 THEN "no"
    ELSE IF ~StartsWith(tab.url, HttpPrefix) /\ ~StartsWith(tab.url, FilePrefix)
         THEN "no"
    ELSE IF isExtensionSuspendedPage(tab.url) THEN "no"
    ELSE IF s.ignorePinned /\ tab.pinned THEN "no"
    ELSE IF s.ignoreAudio /\ tab.audible THEN "no"
    ELSE IF s.ignoreActive /\ tab.active /\ reason = "auto" THEN "no"
    ELSE LET w == isWhitelisted(tab.url, s)
         IN  IF w = "yes" THEN "no" ELSE IF w = "no" THEN "yes" ELSE "throw"

\* ------------------------------------------------------------------------
\* State
\* ------------------------------------------------------------------------
VARIABLES
    now,                 \* Date.now()
    ticks,               \* how often the clock has advanced
    calls,               \* how many requests have been received
    events,              \* how many user events have happened
    settings,            \* currentSettings
    storedSettings,      \* chrome.storage.local "settings"
    tabs,                \* the browser's tabs, by id
    nextTabId,           \* the id the next created tab gets
    strip,               \* the window's tab strip: the open tabs, by index
    suspendedTabsCache,  \* the Registry, in memory
    lastActivityMap,     \* tabId -> timestamp (0: no entry)
    stored,              \* chrome.storage.local "suspendedTabs"
    wq,                  \* storage writes issued and not yet landed, in order
    ops,                 \* calls of suspendTab / unsuspendTab in flight
    batch,               \* the batch operation in flight, or the last finished
    msg,                 \* the message the router is handling, or the last handled
    savePc,              \* saveSettings: "idle" or awaiting its storage write
    saveVal,             \* the settings object that write carries
    inits,               \* calls of init awaiting each of its storage reads
    scanRunning,
    scanRerunRequested,
    scan,                \* the execution of runInactivityScan past its guard
    alarm,               \* the SCAN_ALARM wake timer
    scanActive,          \* history: executions past the guard, not finished
    pendingTrig,         \* history: triggers that hit the guard in this scan
    fin,                 \* history: what the last finished scan left behind
    lastOp,              \* history: the call that returned in the last step
    closedWithRec,       \* history: tabs closed while they had a record
    probe                \* the last evaluation of a pure function

vars == <<now, ticks, calls, events, settings, storedSettings, tabs, nextTabId,
          strip,
          suspendedTabsCache, lastActivityMap, stored, wq, ops, batch, msg,
          savePc, saveVal, inits, scanRunning, scanRerunRequested, scan, alarm,
          scanActive, pendingTrig, fin, lastOp, closedWithRec, probe>>

TabIds == 1..MaxTabId

\* A tab as chrome.tabs.get / chrome.tabs.query return it.
MkTab(id, st, url, title, active, pinned, audible, lastAccessed) ==
    [ id |-> id, st |-> st, url |-> url, title |-> title, active |-> active,
      pinned |-> pinned, audible |-> audible, lastAccessed |-> lastAccessed ]

NoTab(id) == MkTab(id, "none", NoUrl, << >>, FALSE, FALSE, FALSE, 0)

TitleOf(url) == IF url = UrlA THEN <<"A">> ELSE << >>

\* MkRec with the original tab's id as placeholderTabId.
MkRec_originalAsPlaceholder(tab, reason, strategy, placeholderTabId) ==
    [ url |-> tab.url, title |-> tab.title, reason |-> reason,
      originalTabId |-> tab.id, pinned |-> tab.pinned, wasActive |-> tab.active,
      strategy |-> strategy, placeholderTabId |-> tab.id ]

\* A TabRecord of the Registry (src/unnamed/part_001:160-171, 205-209, 224).
MkRec(tab, reason, strategy, placeholderTabId) ==
    [ url |-> tab.url, title |-> tab.title, reason |-> reason,
      originalTabId |-> tab.id, pinned |-> tab.pinned, wasActive |-> tab.active,
      strategy |-> strategy, placeholderTabId |-> placeholderTabId ]

\* No record under this key.
NoRec == MkRec(NoTab(0), "none", "none", 0)

EmptyCache == [t \in TabIds |-> NoRec]

OpIds     == {"m1", "m2", "scan", "batch"}
ManualOps == {"m1", "m2"}

\* One call of suspendTab or unsuspendTab.  pc is the await it is parked at.
\* The last fields are history: what held when the call read its tab (pre),
\* whether the call changed the Registry or a tab (wrote), and whether
\* something else acted on the id the call is about while it was in flight
\* (hit).
IdleOp ==
    [ kind |-> "none", pc |-> "idle", tabId |-> 0, reason |-> "manual",
      tab |-> NoTab(0), index |-> 0, newTab |-> 0, rec |-> NoRec,
      res |-> "none",
      pre |-> [placeholder |-> FALSE, hadRec |-> FALSE, eligible |-> "no"],
      wrote |-> FALSE, hit |-> FALSE ]

InFlight(op) == op.pc # "idle"

\* The id whose tab and Registry entry a call in flight is about: the
\* placeholder once the replace strategy has created it, else the tab given.
ResultId(op) == IF op.newTab # 0 THEN op.newTab ELSE op.tabId

\* Something other than call `self` acts on tab id t.
Touch(O, self, t) ==
    [o \in OpIds |->
        IF o # self /\ InFlight(O[o]) /\ ResultId(O[o]) = t
        THEN [O[o] EXCEPT !.hit = TRUE] ELSE O[o]]

\* persistSuspendedCache (src/unnamed/part_001:128-136): the write carries
\* the Registry as it is when storage.set is called.
Enqueue(q, by, cache) == Append(q, [by |-> by, val |-> cache])

\* An onRemoved listener that leaves the Registry alone.
onRemovedCache_keeps(cache, t) == cache

\* chrome.tabs.onRemoved listener (src/unnamed/part_001:389-402).
onRemovedCache(cache, t) == [cache EXCEPT ![t] = NoRec]
onRemovedWrites(q, cache, t) ==
    IF cache[t] # NoRec THEN Enqueue(q, "ev", onRemovedCache(cache, t)) ELSE q
onRemovedActivity(act, t) == [act EXCEPT ![t] = 0]

\* chrome.tabs.onUpdated listener (src/unnamed/part_001:404-417), for a
\* change of the tab's url.
onUpdatedDrops(cache, t, url) ==
    cache[t] # NoRec /\ ~isExtensionSuspendedPage(url)
onUpdatedCache(cache, t, url) ==
    IF onUpdatedDrops(cache, t, url) THEN [cache EXCEPT ![t] = NoRec] ELSE cache
onUpdatedWrites(q, cache, t, url) ==
    IF onUpdatedDrops(cache, t, url)
    THEN Enqueue(q, "ev", onUpdatedCache(cache, t, url)) ELSE q

\* The browser makes tab t the active one of its window.
\* The tab strip of the window: tab.index is the position in it, from 0.
InStrip(S, t) == \E i \in 1..Len(S) : S[i] = t

IndexOf(S, t) == (CHOOSE i \in 1..Len(S) : S[i] = t) - 1

RemoveFrom(S, t) == SelectSeq(S, LAMBDA x : x # t)

\* The browser puts tab t at index i, or at the end when i is beyond it.
InsertAt(S, i, t) ==
    LET k == IF i > Len(S) THEN Len(S) ELSE i
    IN  SubSeq(S, 1, k) \o <<t>> \o SubSeq(S, k + 1, Len(S))

\* chrome.tabs.move(t, {index: i}).
MoveTo(S, t, i) == IF InStrip(S, t) THEN InsertAt(RemoveFrom(S, t), i, t) ELSE S

Activate(T, t) == [i \in TabIds |-> [T[i] EXCEPT !.active = (i = t)]]

\* The SCAN_ALARM wake timer: whether it is set, when it fires, and (history)
\* the delay and the threshold it was created with.
NoAlarm == [ on |-> FALSE, when |-> 0, delay |-> 0, thr |-> 0 ]

\* The locals of runInactivityScan: now (now0), thresholdMs (thr), nextDelay
\* (inf: still Infinity), tabs (snap) and the loop's position (idx).  The last
\* fields are history: the wake timer the execution created, the tabs it
\* found inactive and eligible that were still eligible when suspendTab read
\* them (found), the inactiveFor the loop computed for each tab it got to
\* line 339 with (seen), and the tabs it called suspendTab on (tried).
\* pc "idle": no execution is past the guard.
NoScan ==
    [ pc |-> "idle", now0 |-> 0, thr |-> 0, inf |-> TRUE, nextDelay |-> 0,
      snap |-> << >>, idx |-> 0, sched |-> FALSE, delay |-> 0, found |-> {},
      seen |-> {}, tried |-> {} ]

\* History of the scan that finished in the step just taken (done): the
\* triggers that hit the guard while it ran (trig), the scans its finally
\* block started (started), whether no scan was running when those started
\* (after), whether its loop went through the whole snapshot (all), and what
\* the scan left behind.
NoFin ==
    [ done |-> FALSE, trig |-> 0, started |-> 0, after |-> TRUE,
      sched |-> FALSE, delay |-> 0, thr |-> 0, inf |-> TRUE, nextDelay |-> 0,
      found |-> {}, all |-> FALSE, snap |-> << >>, seen |-> {},
      tried |-> {} ]

\* No call of init is in flight.
\* read, cacheRead: how the last storage read of loadSettings and of
\* loadSuspendedCache ended.
NoInits == [ settings |-> 0, cache |-> 0, read |-> "none", cacheRead |-> "none" ]

\* The object stored under the "settings" key: the keys it has, their values
\* (val[k] is read only for k in keys) and whether its autoSuspendTime is of
\* type number (storage holds JSON: it may as well be a string or null).
SettingKeys == DOMAIN DEFAULT_SETTINGS

StoredObject(s) == [ keys |-> SettingKeys, val |-> s, timeIsNumber |-> TRUE ]

\* What sendResponse was called with: whether the object has a success field
\* (has), that field, and whether it has an error field.
MkResp(has, success, error) ==
    [ has |-> has, success |-> success, error |-> error ]

NoResp == MkResp(FALSE, FALSE, FALSE)

\* One message in the router's listener (lines 455-553): its action, the
\* await its handler is parked at (pc; "done": returned after sendResponse,
\* "dead": ended by an exception), the tab it resolved and the call slot
\* it awaits.  The last fields are history: how often sendResponse was
\* called and with what, and the success outcome of the operation the
\* message was dispatched to ("none": no operation with such an outcome).
NoMsg ==
    [ action |-> "none", pc |-> "idle", tabId |-> 0, op |-> "none",
      responses |-> 0, resp |-> NoResp, opSuccess |-> "none" ]

\* One call of suspendAllTabs, suspendOtherTabs or unsuspendAllTabs (lines
\* 260-306): the await it is parked at (pc), its locals active (activeId, 0:
\* undefined), tabs or ids (snap), the loop's position (idx) and count.  The
\* last fields are history: the ids the single-tab operation was called on
\* and what each call returned, in order.
NoBatch ==
    [ kind |-> "none", pc |-> "idle", includeActive |-> TRUE, activeId |-> 0,
      snap |-> << >>, idx |-> 0, count |-> 0,
      invoked |-> << >>, results |-> << >> ]

\* ------------------------------------------------------------------------
\* The state as one record, so that a handler is a function from state to
\* state and handlers that call each other compose.  lastOp and fin tell
\* what returned in the step just taken, so every step starts with none.
\* ------------------------------------------------------------------------
Cur ==
    [ now |-> now, ticks |-> ticks, calls |-> calls, events |-> events,
      settings |-> settings,
      storedSettings |-> storedSettings, tabs |-> tabs,
      nextTabId |-> nextTabId, strip |-> strip,
      cache |-> suspendedTabsCache,
      act |-> lastActivityMap, stored |-> stored, wq |-> wq, ops |-> ops,
      batch |-> batch, msg |-> msg, savePc |-> savePc, saveVal |-> saveVal,
      inits |-> inits, running |-> scanRunning,
      rerun |-> scanRerunRequested, scan |-> scan, alarm |-> alarm,
      scanActive |-> scanActive, pendingTrig |-> pendingTrig, fin |-> NoFin,
      lastOp |-> IdleOp, closedWithRec |-> closedWithRec,
      probe |-> probe ]

Becomes(W) ==
    /\ now' = W.now
    /\ ticks' = W.ticks
    /\ calls' = W.calls
    /\ events' = W.events
    /\ settings' = W.settings
    /\ storedSettings' = W.storedSettings
    /\ tabs' = W.tabs
    /\ nextTabId' = W.nextTabId
    /\ strip' = W.strip
    /\ suspendedTabsCache' = W.cache
    /\ lastActivityMap' = W.act
    /\ stored' = W.stored
    /\ wq' = W.wq
    /\ ops' = W.ops
    /\ batch' = W.batch
    /\ msg' = W.msg
    /\ savePc' = W.savePc
    /\ saveVal' = W.saveVal
    /\ inits' = W.inits
    /\ scanRunning' = W.running
    /\ scanRerunRequested' = W.rerun
    /\ scan' = W.scan
    /\ alarm' = W.alarm
    /\ scanActive' = W.scanActive
    /\ pendingTrig' = W.pendingTrig
    /\ fin' = W.fin
    /\ lastOp' = W.lastOp
    /\ closedWithRec' = W.closedWithRec
    /\ probe' = W.probe

\* ------------------------------------------------------------------------
\* Inactivity scan (src/unnamed/part_001:308-376)
\* ------------------------------------------------------------------------
\* chrome.tabs.query({}): the open tabs, in tab order.
Snapshot(T) ==
    SelectSeq([i \in 1..MaxTabId |-> T[i]], LAMBDA tb : tb.st = "open")

\* The delay of the next wake timer without the floor of 5 s.
clampDelay_noFloor(inf, nextDelay, thresholdMs) ==
    LET d == IF inf THEN DefaultDelayMs ELSE nextDelay
    IN  Min(d, Max(thresholdMs, CeilingMs))

\* Lines 357-362: the delay of the next wake timer.
clampDelay(inf, nextDelay, thresholdMs) ==
    LET d == IF inf THEN DefaultDelayMs ELSE nextDelay
    IN  Max(FloorDelayMs, Min(d, Max(thresholdMs, CeilingMs)))

RECURSIVE runInactivityScan(_, _)
RECURSIVE scanFinally(_)

\* A finally block that drops the requested rerun.
scanFinally_noRerun(W) ==
    [W EXCEPT !.running = FALSE,
              !.scan = NoScan,
              !.scanActive = W.scanActive - 1,
              !.fin = [NoFin EXCEPT !.done = TRUE, !.trig = W.pendingTrig],
              !.rerun = FALSE,
              !.pendingTrig = 0]

\* runInactivityScan without its guard (lines 314-317).
runInactivityScan_noGuard(W, viaFinally) ==
    LET thresholdMs == W.settings.autoSuspendTime * MsPerMinute
        W1 == [W EXCEPT !.running = TRUE,
                        !.scanActive = W.scanActive + 1,
                        !.alarm = NoAlarm]
    IN  IF ~W.settings.autoSuspend THEN scanFinally(W1)
        ELSE IF thresholdMs = 0 THEN scanFinally(W1)
        ELSE [W1 EXCEPT !.scan =
                 [NoScan EXCEPT !.pc = "query", !.now0 = W.now,
                                !.thr = thresholdMs]]

\* Lines 363-369: the finally block.
scanFinally(W) ==
    LET W1 == [W EXCEPT !.running = FALSE,
                        !.scan = NoScan,
                        !.scanActive = W.scanActive - 1,
                        !.fin = IF W.fin.done THEN W.fin
                                ELSE [done |-> TRUE, trig |-> W.pendingTrig,
                                      started |-> 0, after |-> TRUE,
                                      sched |-> W.scan.sched,
                                      delay |-> W.scan.delay,
                                      thr |-> W.scan.thr,
                                      inf |-> W.scan.inf,
                                      nextDelay |-> W.scan.nextDelay,
                                      found |-> W.scan.found,
                                      all |-> W.scan.idx > Len(W.scan.snap),
                                      snap |-> W.scan.snap,
                                      seen |-> W.scan.seen,
                                      tried |-> W.scan.tried],
                        !.pendingTrig = 0]
    IN  IF W.rerun
        THEN runInactivityScan([W1 EXCEPT !.rerun = FALSE], TRUE)
        ELSE W1

\* Lines 313-326: runInactivityScan up to its first await.  viaFinally tells
\* the history whether the call is the rerun of the finally block.
runInactivityScan(W, viaFinally) ==
    IF W.running
    THEN [W EXCEPT !.rerun = TRUE,
                   !.pendingTrig = Min(W.pendingTrig + 1, MaxTrig)]
    ELSE LET thresholdMs == W.settings.autoSuspendTime * MsPerMinute
             W1 == [W EXCEPT
                      !.running = TRUE,
                      !.scanActive = W.scanActive + 1,
                      !.fin = IF viaFinally
                              THEN [W.fin EXCEPT !.started = W.fin.started + 1,
                                                 !.after = (W.scanActive = 0)]
                              ELSE W.fin,
                      !.alarm = NoAlarm]
         IN  IF ~W.settings.autoSuspend THEN scanFinally(W1)
             ELSE IF thresholdMs = 0 THEN scanFinally(W1)
             ELSE [W1 EXCEPT !.scan =
                      [NoScan EXCEPT !.pc = "query", !.now0 = W.now,
                                     !.thr = thresholdMs]]

\* Lines 372-376.
configureAlarm(W) ==
    LET W1 == [W EXCEPT !.alarm = NoAlarm]
    IN  IF ~W.settings.autoSuspend THEN W1 ELSE runInactivityScan(W1, FALSE)

\* chrome.tabs.onActivated listener (lines 420-423).
onActivated(W, t) ==
    LET W1 == [W EXCEPT !.act[t] = W.now]
    IN  IF W.settings.autoSuspend THEN runInactivityScan(W1, FALSE) ELSE W1

\* Lines 357-362, then the finally block.
scanSchedule(W) ==
    LET d == clampDelay(W.scan.inf, W.scan.nextDelay, W.scan.thr)
    IN  scanFinally([W EXCEPT
            !.alarm = [on |-> TRUE, when |-> W.now + d, delay |-> d,
                       thr |-> W.scan.thr],
            !.scan.sched = TRUE,
            !.scan.delay = d])

\* suspendTab up to its first await: chrome.tabs.get is issued (line 154).
suspendTabCall(W, o, t, reason) ==
    [W EXCEPT !.ops[o] = [IdleOp EXCEPT !.kind = "suspend", !.pc = "get",
                                        !.tabId = t, !.reason = reason]]

\* Lines 350 and 354: nextDelay = Math.min(nextDelay, d), nextDelay being
\* Infinity while inf holds.
minDelay_last(inf, nextDelay, d) == d

minDelay(inf, nextDelay, d) == IF inf THEN d ELSE Min(nextDelay, d)

\* Lines 327-356: the loop over the snapshot, from tab idx on, up to the
\* next await (a call of suspendTab) or to the end of the scan.
RECURSIVE scanLoop(_)
scanLoop(W) ==
    LET sc == W.scan
        tab == sc.snap[sc.idx]
        step(Wx) == scanLoop([Wx EXCEPT !.scan.idx = sc.idx + 1])
        W1 == IF W.act[tab.id] = 0 /\ tab.lastAccessed # 0
              THEN [W EXCEPT !.act[tab.id] = tab.lastAccessed] ELSE W
        last == IF W1.act[tab.id] # 0 THEN W1.act[tab.id] ELSE tab.lastAccessed
        inactiveFor == sc.now0 - last
        W2 == [W1 EXCEPT !.scan.seen =
                  @ \cup {[id |-> tab.id, inactiveFor |-> inactiveFor]}]
        contribute(d) ==
            [W2 EXCEPT !.scan.inf = FALSE,
                       !.scan.nextDelay = minDelay(sc.inf, sc.nextDelay, d)]
        e == eligibleForSuspend(tab, "auto", W1.settings)
    IN  IF sc.idx > Len(sc.snap) THEN scanSchedule(W)
        ELSE IF tab.id = 0 THEN step(W)
        ELSE IF isExtensionSuspendedPage(tab.url) THEN step(W)
        ELSE IF last = 0 THEN step(W1)
        ELSE IF inactiveFor >= sc.thr
             THEN IF e = "throw" THEN scanFinally(W2)
                  ELSE IF e = "yes"
                       THEN suspendTabCall(
                                [W2 EXCEPT !.scan.pc = "suspend",
                                           !.scan.tried = @ \cup {tab.id}],
                                "scan", tab.id, "auto")
                  ELSE step(contribute(sc.thr))
        ELSE step(contribute(sc.thr - inactiveFor))

\* Line 326 on: tabs.query has answered, and the loop starts.
scanQueried(W) ==
    scanLoop([W EXCEPT !.scan.snap = Snapshot(W.tabs), !.scan.idx = 1,
                       !.scan.pc = "loop"])

\* Line 326 with tabs.query rejecting: the exception leaves the try, which
\* has no catch, through the finally block (lines 363-369).
scanQueryFailed(W) == scanFinally(W)

\* The caller of a finished suspendTab goes on: the scan with its next tab
\* (line 347), a message handler with sendResponse.
afterSuspend(W, o) ==
    IF o = "scan" /\ W.scan.pc = "suspend"
    THEN scanLoop([W EXCEPT !.scan.pc = "loop",
                            !.scan.idx = W.scan.idx + 1,
                            !.scan.found =
                                IF W.lastOp.pre.eligible = "yes"
                                THEN W.scan.found \cup {W.lastOp.tabId}
                                ELSE W.scan.found])
    ELSE W

\* ------------------------------------------------------------------------
\* suspendTab (src/unnamed/part_001:152-235)
\* ------------------------------------------------------------------------
finishOp(W, o, res) ==
    afterSuspend([W EXCEPT !.lastOp = [W.ops[o] EXCEPT !.pc = "done", !.res = res],
                           !.ops[o] = IdleOp], o)

\* Lines 154-186: the tab has been read; the checks, and tabs.create issued.
suspendTabGot(W, o) ==
    LET op  == W.ops[o]
        tab == W.tabs[op.tabId]
        e   == eligibleForSuspend(tab, op.reason, W.settings)
        W0  == [W EXCEPT !.ops[o].pre =
                            [placeholder |-> tab.st = "open" /\
                                             isExtensionSuspendedPage(tab.url),
                             hadRec |-> W.cache[op.tabId] # NoRec,
                             eligible |-> e]]
        W1  == [W0 EXCEPT !.ops[o].tab = tab,
                          !.ops[o].index = IF InStrip(W.strip, op.tabId)
                                           THEN IndexOf(W.strip, op.tabId)
                                           ELSE 0]
    IN  IF tab.st # "open" THEN finishOp(W0, o, "error")
        ELSE IF e = "throw" THEN finishOp(W1, o, "error")
        ELSE IF e = "no" THEN finishOp(W1, o, "rejected")
        ELSE IF isExtensionSuspendedPage(tab.url)
             THEN finishOp(W1, o, "already")
        ELSE IF W.cache[op.tabId] # NoRec THEN finishOp(W1, o, "already")
        ELSE [W1 EXCEPT !.ops[o].pc = "create"]

\* Lines 180-186 succeeded: the browser has opened the placeholder next to
\* the original, with the original's active and pinned flags; tabs.move is
\* issued (lines 189-194).  A tab created active fires onActivated.
suspendTabCreated(W, o) ==
    LET op == W.ops[o]
        p  == W.nextTabId
        nt == MkTab(p, "open", getSuspendedUrl(op.tab.url, op.tab.title),
                    << >>, op.tab.active, op.tab.pinned, FALSE, W.now)
        T1 == [W.tabs EXCEPT ![p] = nt]
        W1 == [W EXCEPT !.tabs = IF op.tab.active THEN Activate(T1, p) ELSE T1,
                        !.nextTabId = p + 1,
                        !.strip = InsertAt(W.strip, op.index + 1, p),
                        !.ops[o].newTab = p,
                        !.ops[o].hit = FALSE,
                        !.ops[o].wrote = TRUE,
                        !.ops[o].pc = "move"]
    IN  IF op.tab.active THEN onActivated(W1, p) ELSE W1

\* suspendTabFallback that records the strategy as replace.
suspendTabFallback_asReplace(W, o) ==
    LET op == W.ops[o]
        c1 == [W.cache EXCEPT ![op.tabId] = MkRec(op.tab, op.reason, "replace", 0)]
    IN  [W EXCEPT !.cache = c1,
                  !.wq = Enqueue(W.wq, o, c1),
                  !.ops = [Touch(W.ops, o, op.tabId) EXCEPT
                              ![o].wrote = TRUE, ![o].pc = "navPersist"]]

\* Lines 215-226: tabs.create threw; the record goes under the original id
\* and its persist is issued.
suspendTabFallback(W, o) ==
    LET op == W.ops[o]
        c1 == [W.cache EXCEPT ![op.tabId] = MkRec(op.tab, op.reason, "navigate", 0)]
    IN  [W EXCEPT !.cache = c1,
                  !.wq = Enqueue(W.wq, o, c1),
                  !.ops = [Touch(W.ops, o, op.tabId) EXCEPT
                              ![o].wrote = TRUE, ![o].pc = "navPersist"]]

\* suspendTabMoved with the record put under the original tab's id.
suspendTabMoved_underOriginalId(W, o) ==
    LET op == W.ops[o]
        c1 == [W.cache EXCEPT ![op.tabId] =
                  MkRec(op.tab, op.reason, "replace", op.newTab)]
    IN  [W EXCEPT !.cache = c1,
                  !.wq = Enqueue(W.wq, o, c1),
                  !.ops[o].pc = "persist"]

\* Lines 189-210: the move of the placeholder into the original's slot and
\* the grouping are over; the record goes under the placeholder's id and its
\* persist is issued.
suspendTabMoved(W, o) ==
    LET op == W.ops[o]
        c1 == [W.cache EXCEPT ![op.newTab] =
                  MkRec(op.tab, op.reason, "replace", op.newTab)]
    IN  [W EXCEPT !.cache = c1,
                  !.wq = Enqueue(W.wq, o, c1),
                  !.strip = MoveTo(W.strip, op.newTab, op.index),
                  !.ops = [Touch(W.ops, o, op.newTab) EXCEPT
                              ![o].pc = "persist"]]

\* Lines 189-194 with tabs.move rejecting: the failure is swallowed and the
\* placeholder stays where tabs.create put it.
suspendTabMoveFailed(W, o) == [suspendTabMoved(W, o) EXCEPT !.strip = W.strip]

\* The storage write at the head of the queue lands.
landWrite(W) == [W EXCEPT !.stored = Head(W.wq).val, !.wq = Tail(W.wq)]

\* persistSuspendedCache (lines 133-135): storage.local.set rejected; the
\* error is logged and the caller goes on as after a write.
dropWrite(W) == [W EXCEPT !.wq = Tail(W.wq)]

persistFailed(W, o) ==
    LET pc == W.ops[o].pc
    IN  [dropWrite(W) EXCEPT !.ops[o].pc =
            IF pc = "persist" THEN "remove"
            ELSE IF pc = "navPersist" THEN "navUpdate"
            ELSE "uUpdate"]

\* Lines 210-212: the persist is over; tabs.remove of the original is issued.
suspendTabPersisted(W, o) == [landWrite(W) EXCEPT !.ops[o].pc = "remove"]

\* The tab the browser makes active when the active tab t is closed: the
\* nearest open tab after it, else the nearest before it (0: none is left).
NextActive(T, t) ==
    LET after  == {i \in TabIds : i > t /\ T[i].st = "open"}
        before == {i \in TabIds : i < t /\ T[i].st = "open"}
    IN  IF after # {} THEN CHOOSE i \in after : \A j \in after : i <= j
        ELSE IF before # {} THEN CHOOSE i \in before : \A j \in before : i >= j
        ELSE 0

\* The browser closes tab t and the onRemoved listener runs.
closeTabOnly(W, self, t) ==
    [W EXCEPT !.tabs[t].st = "closed",
              !.tabs[t].active = FALSE,
              !.strip = RemoveFrom(W.strip, t),
              !.cache = onRemovedCache(W.cache, t),
              !.wq = onRemovedWrites(W.wq, W.cache, t),
              !.act = onRemovedActivity(W.act, t),
              !.closedWithRec =
                  IF W.cache[t] # NoRec
                  THEN W.closedWithRec \cup
                           {[id |-> t, hadActivity |-> W.act[t] # 0]}
                  ELSE W.closedWithRec,
              !.ops = Touch(W.ops, self, t)]

\* The closing of tab t: the onRemoved listener, and when t was the active
\* tab, the activation of another tab with its onActivated listener.
closeTab(W, self, t) ==
    LET n  == NextActive(W.tabs, t)
        W1 == closeTabOnly(W, self, t)
    IN  IF W.tabs[t].active /\ n # 0
        THEN onActivated([W1 EXCEPT !.tabs = Activate(W1.tabs, n)], n)
        ELSE W1

\* Lines 211-214: tabs.remove is over (a failure is swallowed).
suspendTabRemoved(W, o) ==
    LET op == W.ops[o]
        W1 == IF W.tabs[op.tabId].st = "open" THEN closeTab(W, o, op.tabId) ELSE W
    IN  finishOp(W1, o, "replaced")

\* Lines 211-214 with tabs.remove rejecting for a tab that is open (the
\* browser refuses to edit tabs while the user drags one): the failure is
\* swallowed and the call returns as after a close.
suspendTabRemoveFailed(W, o) == finishOp(W, o, "replaced")

\* Lines 226-229: the fallback's persist is over; tabs.update is issued.
suspendTabNavPersisted(W, o) == [landWrite(W) EXCEPT !.ops[o].pc = "navUpdate"]

\* The browser sets the address of tab t and the onUpdated listener runs.
navigateTab(W, self, t, url) ==
    [W EXCEPT !.tabs[t].url = url,
              !.tabs[t].title = TitleOf(url),
              !.cache = onUpdatedCache(W.cache, t, url),
              !.wq = onUpdatedWrites(W.wq, W.cache, t, url),
              !.ops = Touch(W.ops, self, t)]

\* Lines 227-234: tabs.update is over, or threw because the tab is gone.
suspendTabNavUpdated(W, o) ==
    LET op == W.ops[o]
    IN  IF W.tabs[op.tabId].st # "open" THEN finishOp(W, o, "error")
        ELSE finishOp(navigateTab(W, o, op.tabId,
                                  getSuspendedUrl(op.tab.url, op.tab.title)),
                      o, "navigated")

\* The object suspendTab returns (lines 155, 157-158, 214, 230, 233), by the
\* return statement taken; a field the object does not have is FALSE.  The
\* router answers a suspendTab / suspendCurrentTab message with this object
\* (line 492).
suspendResult(res) ==
    [ success   |-> res \in {"replaced", "navigated"},
      already   |-> res = "already",
      replaced  |-> res = "replaced",
      navigated |-> res = "navigated",
      error     |-> res = "error",
      ignored   |-> FALSE ]

\* ------------------------------------------------------------------------
\* unsuspendTab (src/unnamed/part_001:237-258)
\* ------------------------------------------------------------------------
\* Lines 239-242: the lookup, the delete, and the persist issued.
unsuspendTabCall(W, o, t) ==
    LET rec == W.cache[t]
        op0 == [IdleOp EXCEPT !.kind = "unsuspend", !.tabId = t, !.rec = rec]
        c1  == [W.cache EXCEPT ![t] = NoRec]
    IN  IF rec = NoRec
        THEN [W EXCEPT !.lastOp = [op0 EXCEPT !.pc = "done",
                                            !.res = "notSuspended"]]
        ELSE [W EXCEPT !.cache = c1,
                       !.wq = Enqueue(W.wq, o, c1),
                       !.ops = [Touch(W.ops, o, t) EXCEPT
                                   ![o] = [op0 EXCEPT !.pc = "uPersist",
                                                      !.wrote = TRUE]]]

\* Lines 242-252: the persist is over; tabs.update is issued.
unsuspendTabPersisted(W, o) == [landWrite(W) EXCEPT !.ops[o].pc = "uUpdate"]

\* unsuspendTabUpdated that puts the record back when tabs.update threw.
unsuspendTabUpdated_rollback(W, o) ==
    LET op == W.ops[o]
    IN  [W EXCEPT !.cache[op.tabId] = op.rec,
                  !.lastOp = [op EXCEPT !.pc = "done", !.res = "error"],
                  !.ops[o] = IdleOp]

\* Lines 244-257: tabs.update is over, or threw because the tab is gone.
\* The replace strategy also focuses the tab and restores its pinned flag.
unsuspendTabUpdated(W, o) ==
    LET op == W.ops[o]
        t  == op.tabId
        W1 == navigateTab(W, o, t, op.rec.url)
        W2 == IF op.rec.strategy = "replace"
              THEN LET W3 == [W1 EXCEPT !.tabs = [Activate(W1.tabs, t) EXCEPT
                                           ![t].pinned = op.rec.pinned,
                                           ![t].lastAccessed = W.now]]
                   IN  IF W.tabs[t].active THEN W3 ELSE onActivated(W3, t)
              ELSE W1
    IN  IF W.tabs[t].st # "open"
        THEN [W EXCEPT !.lastOp = [op EXCEPT !.pc = "done", !.res = "error"],
                       !.ops[o] = IdleOp]
        ELSE [W2 EXCEPT !.lastOp = [W2.ops[o] EXCEPT
                                     !.pc = "done", !.res = "restored"],
                        !.ops[o] = IdleOp]

\* ------------------------------------------------------------------------
\* Batch operations (src/unnamed/part_001:260-306)
\* ------------------------------------------------------------------------
\* Object.keys(suspendedTabsCache).map(Number): the keys, in ascending order.
RECURSIVE keysFrom(_, _)
keysFrom(cache, t) ==
    IF t > MaxTabId THEN << >>
    ELSE (IF cache[t] # NoRec THEN << [id |-> t, active |-> FALSE] >> ELSE << >>)
         \o keysFrom(cache, t + 1)

\* What the loops read of a tab that tabs.query returned.
batchTabs(T) ==
    LET sn == Snapshot(T)
    IN  [i \in 1..Len(sn) |-> [id |-> sn[i].id, active |-> sn[i].active]]

\* tabs.query({active: true, currentWindow: true})[0]: its id, 0 if undefined.
activeTabId(T) ==
    LET act == {t \in TabIds : T[t].st = "open" /\ T[t].active}
    IN  IF act = {} THEN 0 ELSE CHOOSE t \in act : TRUE

\* The single-tab operation returned success: true.
opSucceeded(res) == res \in {"replaced", "navigated", "restored"}

RECURSIVE batchLoop(_)
RECURSIVE batchReturned(_)

\* A loop that passes no tab over.
skipTab_never(b, tab) == FALSE

\* Lines 279 and 298: the tabs the loops of suspendAllTabs and
\* suspendOtherTabs pass over.  (With active undefined, active.id throws
\* and the catch of the loop goes on with the next tab.)
skipTab(b, tab) ==
    \/ b.kind = "suspendAll" /\ ~b.includeActive /\ tab.active
    \/ b.kind = "suspendOthers" /\ b.activeId = 0
    \/ b.kind = "suspendOthers" /\ tab.id = b.activeId

\* A loop that gives up at the first call that does not succeed.
batchReturned_abortOnFailure(W) ==
    IF W.lastOp.pc # "done" THEN W
    ELSE IF opSucceeded(W.lastOp.res)
    THEN batchLoop([W EXCEPT !.batch.results = Append(@, W.lastOp.res),
                             !.batch.count = @ + 1,
                             !.batch.idx = @ + 1])
    ELSE [W EXCEPT !.batch.results = Append(@, W.lastOp.res),
                   !.batch.pc = "done"]

\* Lines 263-270, 277-285, 296-304: the loop from element idx on, up to the
\* next await that is not over at once, or to the return of the batch.  In
\* suspendOtherTabs, active.id throws when active is undefined, and the
\* catch of the loop goes on with the next tab.
batchLoop(W) ==
    LET b    == W.batch
        tab  == b.snap[b.idx]
        skip == [W EXCEPT !.batch.idx = b.idx + 1]
        call == [W EXCEPT !.batch.invoked = Append(@, tab.id),
                          !.batch.pc = "run",
                          !.lastOp = IdleOp]
    IN  IF b.idx > Len(b.snap) THEN [W EXCEPT !.batch.pc = "done"]
        ELSE IF b.kind = "unsuspendAll"
             THEN batchReturned(unsuspendTabCall(call, "batch", tab.id))
        ELSE IF skipTab(b, tab) THEN batchLoop(skip)
        ELSE suspendTabCall(call, "batch", tab.id, "manual")

\* Lines 265-266, 280-281, 299-300: the single-tab call of the loop has
\* returned in this step (lastOp); its success is counted and the loop
\* goes on.
batchReturned(W) ==
    IF W.lastOp.pc # "done" THEN W
    ELSE batchLoop([W EXCEPT
             !.batch.results = Append(@, W.lastOp.res),
             !.batch.count = IF opSucceeded(W.lastOp.res) THEN @ + 1 ELSE @,
             !.batch.idx = @ + 1])

\* The batch is called.  unsuspendAllTabs (lines 261-263) reads the keys
\* and enters its loop at once; the other two issue a tabs.query first
\* (lines 275, 290).
batchCall(W, kind, includeActive) ==
    LET b == [NoBatch EXCEPT !.kind = kind, !.includeActive = includeActive]
    IN  IF kind = "unsuspendAll"
        THEN batchLoop([W EXCEPT !.batch =
                 [b EXCEPT !.snap = keysFrom(W.cache, 1), !.idx = 1,
                           !.pc = "run"]])
        ELSE [W EXCEPT !.batch =
                 [b EXCEPT !.pc = IF kind = "suspendOthers"
                                  THEN "queryActive" ELSE "query"]]

\* Lines 290-294: the query of the active tab has answered.
batchQueriedActive(W) ==
    [W EXCEPT !.batch.activeId = activeTabId(W.tabs), !.batch.pc = "query"]

\* Lines 275, 294: the query of the tabs has answered; the loop starts.
batchQueried(W) ==
    batchLoop([W EXCEPT !.batch.snap = batchTabs(W.tabs), !.batch.idx = 1,
                        !.batch.pc = "run"])

\* Lines 275, 290, 294: a tabs.query rejected; the batch throws to its caller.
batchQueryFailed(W) == [W EXCEPT !.batch.pc = "threw"]

\* What a finished batch returns (lines 271, 286, 305).
batchResult(b) == [ success |-> TRUE, count |-> b.count ]

\* ------------------------------------------------------------------------
\* Message router (src/unnamed/part_001:455-553), the actions needed here
\* ------------------------------------------------------------------------
\* getSuspendedTabData (lines 523-527), sent from tab t: the response.  The
\* handler changes nothing, so what a request would be answered is a
\* function of the state.
getSuspendedTabData(cache, t) == cache[t]

\* activityPing (lines 540-546), sent from tab t.
activityPing(W, t) == [W EXCEPT !.act[t] = W.now]

\* saveSettings (lines 95-100) of the one-key object {k: v}: the merge, and
\* the storage write issued.
saveSettingsCall(W, k, v) ==
    [W EXCEPT !.settings = [W.settings EXCEPT ![k] = v],
              !.savePc = "write",
              !.saveVal = [W.settings EXCEPT ![k] = v]]

\* saveSettings (lines 100-102): the write is over; configureAlarm.
saveSettingsWritten(W) ==
    configureAlarm([W EXCEPT !.storedSettings = StoredObject(W.saveVal),
                             !.savePc = "idle",
                             !.saveVal = DEFAULT_SETTINGS])

\* saveSettings (lines 103-106): storage.set threw; the merge stays in
\* memory, nothing is stored, configureAlarm is not called, and false is
\* returned.
saveSettingsFailed(W) ==
    [W EXCEPT !.savePc = "idle", !.saveVal = DEFAULT_SETTINGS]

\* The object unsuspendTab returns (lines 240, 250, 253, 256).
unsuspendResult(res) ==
    [ success      |-> res = "restored",
      notSuspended |-> res = "notSuspended",
      error        |-> res = "error" ]

\* The success outcome of an operation, as the router's record keeps it.
Outcome(b) == IF b THEN "succeeded" ELSE "failed"

\* sendResponse(r), after which the handler returns.  ok is the outcome of
\* the operation the handler ran ("none": it ran none).
sendResponse(W, r, ok) ==
    [W EXCEPT !.msg.responses = @ + 1, !.msg.resp = r, !.msg.opSuccess = ok,
              !.msg.pc = "done"]

\* An await of the handler rejected: the async function of line 456 ends
\* there (it has no catch).
routerThrew(W) == [W EXCEPT !.msg.pc = "dead"]

\* The call of suspendTab or unsuspendTab in slot o has returned in this
\* step: a handler that awaits it answers.  Lines 492 and 509 send what the
\* call returned; lines 530-531 (restoreTab) send { success: true }.
routerOpReturned(W, o) ==
    IF W.msg.op # o \/ W.lastOp.pc # "done" THEN W
    ELSE IF W.msg.pc = "restore"
         THEN sendResponse(W, MkResp(TRUE, TRUE, FALSE),
                           Outcome(unsuspendResult(W.lastOp.res).success))
    ELSE IF W.lastOp.kind = "suspend"
         THEN LET r == suspendResult(W.lastOp.res)
              IN  sendResponse(W, MkResp(TRUE, r.success, r.error),
                               Outcome(r.success))
    ELSE LET r == unsuspendResult(W.lastOp.res)
         IN  sendResponse(W, MkResp(TRUE, r.success, r.error),
                               Outcome(r.success))

\* Lines 514, 518, 521: the batch the handler awaits has returned, or has
\* thrown.
routerBatchReturned(W) ==
    IF W.msg.pc # "batch" THEN W
    ELSE IF W.batch.pc = "done"
         THEN sendResponse(W, MkResp(TRUE, batchResult(W.batch).success, FALSE),
                           Outcome(batchResult(W.batch).success))
    ELSE IF W.batch.pc = "threw" THEN routerThrew(W)
    ELSE W

\* Lines 464-465: saveSettings has returned ok; its result is not read.
routerSaved(W, ok) ==
    IF W.msg.pc # "save" THEN W
    ELSE sendResponse(W, MkResp(TRUE, TRUE, FALSE), Outcome(ok))

\* Lines 488-492, 505-509: the tab id is known; null is answered with
\* { success: false }, else the operation is called.  Up to its first
\* await suspendTab only issues tabs.get, so the reading of the tab is part
\* of the step.
routerCallOp(W, tabId) ==
    LET W1 == [W EXCEPT !.msg.pc = "op", !.msg.op = "m1", !.msg.tabId = tabId]
    IN  IF tabId = 0 THEN sendResponse(W, MkResp(TRUE, FALSE, FALSE), "none")
        ELSE IF W.msg.action = "unsuspendTab"
             THEN routerOpReturned(unsuspendTabCall(W1, "m1", tabId), "m1")
        ELSE routerOpReturned(
                 suspendTabGot(suspendTabCall(W1, "m1", tabId, "manual"), "m1"),
                 "m1")

SaveActions    == {"saveSettings", "updateSettings"}
SuspendActions == {"suspendTab", "suspendCurrentTab"}
BatchActions   == {"suspendAll", "suspendAllTabs", "unsuspendAll",
                   "unsuspendAllTabs", "suspendOtherTabs"}

batchKindOf(action) ==
    IF action \in {"suspendAll", "suspendAllTabs"} THEN "suspendAll"
    ELSE IF action = "suspendOtherTabs" THEN "suspendOthers"
    ELSE "unsuspendAll"

\* Lines 455-553: the listener up to its first await, for a message with
\* the given action, sender.tab.id (senderTab, 0: none), req.tabId (reqTab,
\* 0: none), req.url (reqUrl: given or not) and req.settings = {k: v}.
routerDispatch(W, action, senderTab, reqTab, reqUrl, k, v) ==
    LET W0    == [W EXCEPT !.msg = [NoMsg EXCEPT !.action = action],
                           !.lastOp = IdleOp]
        tabId == IF reqTab # 0 THEN reqTab ELSE senderTab
    IN  IF action = "getSettings" THEN sendResponse(W0, NoResp, "none")
        ELSE IF action \in SaveActions
             THEN [saveSettingsCall(W0, k, v) EXCEPT !.msg.pc = "save"]
        ELSE IF action = "getChromeShortcuts" THEN [W0 EXCEPT !.msg.pc = "cmds"]
        ELSE IF action \in SuspendActions \cup {"unsuspendTab"}
             THEN IF tabId = 0 THEN [W0 EXCEPT !.msg.pc = "resolve"]
                  ELSE routerCallOp(W0, tabId)
        ELSE IF action \in BatchActions
             THEN routerBatchReturned(
                      batchCall([W0 EXCEPT !.msg.pc = "batch"],
                                batchKindOf(action), TRUE))
        ELSE IF action = "getSuspendedTabData"
             THEN sendResponse(W0, NoResp, "none")
        ELSE IF action = "restoreTab"
             THEN IF senderTab # 0 /\ W.cache[senderTab] # NoRec
                  THEN routerOpReturned(
                           unsuspendTabCall(
                               [W0 EXCEPT !.msg.pc = "restore", !.msg.op = "m1",
                                          !.msg.tabId = senderTab],
                               "m1", senderTab),
                           "m1")
                  ELSE IF senderTab # 0 /\ reqUrl
                       THEN [W0 EXCEPT !.msg.pc = "restoreUpdate",
                                       !.msg.tabId = senderTab]
                  ELSE sendResponse(W0, MkResp(TRUE, FALSE, FALSE), "none")
        ELSE IF action = "activityPing"
             THEN sendResponse(IF senderTab # 0 THEN activityPing(W0, senderTab)
                               ELSE W0,
                               NoResp, "none")
        ELSE sendResponse(W0, MkResp(TRUE, FALSE, TRUE), "none")

\* Lines 483-487, 500-504: the query for the active tab has answered.
routerResolved(W) == routerCallOp(W, activeTabId(W.tabs))

\* Line 470-473: commands.getAll has answered; the map is sent.
routerCmdsListed(W) == sendResponse(W, NoResp, "none")

\* Lines 533-534: tabs.update of the sender's tab is over, or threw because
\* the tab is gone.
routerRestoreUpdated(W, url) ==
    IF W.tabs[W.msg.tabId].st # "open" THEN routerThrew(W)
    ELSE sendResponse(navigateTab(W, "none", W.msg.tabId, url),
                      MkResp(TRUE, TRUE, FALSE), Outcome(TRUE))

\* ------------------------------------------------------------------------
\* init (src/unnamed/part_001:556-572)
\* ------------------------------------------------------------------------
\* Lines 78-81: the stored object spread over the defaults.
mergeStored(obj) ==
    [k \in SettingKeys |->
        IF k \in obj.keys THEN obj.val[k] ELSE DEFAULT_SETTINGS[k]]

\* Lines 82-85: the merged autoSuspendTime is not a number, or is <= 0.
invalidTime(obj) ==
    "autoSuspendTime" \in obj.keys
        /\ (~obj.timeIsNumber \/ obj.val.autoSuspendTime <= 0)

\* loadSettings that keeps the merged autoSuspendTime whatever it is.
loadSettings_unvalidated(W) ==
    configureAlarm([W EXCEPT !.settings = mergeStored(W.storedSettings),
                             !.inits.settings = W.inits.settings - 1,
                             !.inits.cache = W.inits.cache + 1,
                             !.inits.read = "ok"])

\* loadSettings (lines 75-88), from the answer of storage.get on: the stored
\* settings over the defaults, an invalid autoSuspendTime replaced by the
\* default, then configureAlarm.  init goes on to loadSuspendedCache.
loadSettings(W) ==
    LET merged == mergeStored(W.storedSettings)
        fixed  == IF invalidTime(W.storedSettings)
                  THEN [merged EXCEPT !.autoSuspendTime =
                                         DEFAULT_SETTINGS.autoSuspendTime]
                  ELSE merged
    IN  configureAlarm([W EXCEPT !.settings = fixed,
                                 !.inits.settings = W.inits.settings - 1,
                                 !.inits.cache = W.inits.cache + 1,
                                 !.inits.read = "ok"])

\* loadSettings (lines 89-92): storage.get rejected; the defaults, and no
\* configureAlarm.  init goes on to loadSuspendedCache.
loadSettingsFailed(W) ==
    [W EXCEPT !.settings = DEFAULT_SETTINGS,
              !.inits.settings = W.inits.settings - 1,
              !.inits.cache = W.inits.cache + 1,
              !.inits.read = "failed"]

\* A stored value that is not a TabRecord carries its JSON shape: json is
\* its type ("null", "number", "object") and urlType the type of its url
\* field.  The records the worker writes are objects with a string url.
NullEntry   == [ json |-> "null" ]
NumberEntry == [ json |-> "number" ]
NoUrlEntry  == [ json |-> "object", urlType |-> "undefined" ]
NumUrlEntry == [ json |-> "object", urlType |-> "number" ]

IsRecord(v) == "json" \notin DOMAIN v

\* Lines 115-118: val && typeof val === "object" && typeof val.url ===
\* "string" (typeof null is "object").
validEntry(v) ==
    /\ IsRecord(v) \/ v.json # "null"
    /\ IsRecord(v) \/ v.json \in {"object", "null"}
    /\ IsRecord(v) \/ (v.json = "object" /\ v.urlType = "string")

\* loadSuspendedCache that takes the stored object as it is.
loadSuspendedCache_unfiltered(W) ==
    configureAlarm([W EXCEPT !.cache = W.stored,
                             !.inits.cache = W.inits.cache - 1,
                             !.inits.cacheRead = "ok"])

\* loadSuspendedCache (lines 109-121), from the answer of storage.get on:
\* the Registry becomes the stored entries that pass the filter; init ends
\* with configureAlarm (line 560).
loadSuspendedCache(W) ==
    configureAlarm([W EXCEPT !.cache =
                                 [t \in TabIds |->
                                     IF validEntry(W.stored[t]) THEN W.stored[t]
                                     ELSE NoRec],
                             !.inits.cache = W.inits.cache - 1,
                             !.inits.cacheRead = "ok"])

\* loadSuspendedCache (lines 122-125): storage.get rejected; the Registry
\* becomes empty, and init goes on to configureAlarm.
loadSuspendedCacheFailed(W) ==
    configureAlarm([W EXCEPT !.cache = EmptyCache,
                             !.inits.cache = W.inits.cache - 1,
                             !.inits.cacheRead = "failed"])

\* ------------------------------------------------------------------------
\* Initial states
\* ------------------------------------------------------------------------
\* The worker starts a minute into the epoch: every timestamp is truthy.
StartTime == MsPerMinute

\* The last evaluation of isWhitelisted (kind "wl") or eligibleForSuspend
\* (kind "el"): its arguments and its result.
NoProbe ==
    [ kind |-> "none", tab |-> NoTab(0), url |-> NoUrl, reason |-> "manual",
      res |-> "no" ]

\* Tab 1 shows UrlA and is the active tab; tab 2 is given.
InitTabs(tab2) ==
    [t \in TabIds |->
        IF t = 1 THEN MkTab(1, "open", UrlA, TitleOf(UrlA), TRUE, FALSE, FALSE, StartTime)
        ELSE IF t = 2 THEN tab2
        ELSE NoTab(t)]

Tab2Choices ==
    { MkTab(2, "open", UrlB, << >>, FALSE, FALSE, FALSE, StartTime) }

\* The worker as its script has just been loaded (lines 29-33, 310-311),
\* with settings s in memory and in storage, before init is called.
Fresh(tab2, s) ==
    [ now |-> StartTime, ticks |-> 0, calls |-> 0, events |-> 0,
      settings |-> s, storedSettings |-> StoredObject(s),
      tabs |-> InitTabs(tab2), nextTabId |-> 3, strip |-> <<1, 2>>,
      cache |-> EmptyCache, act |-> [t \in TabIds |-> 0],
      stored |-> EmptyCache, wq |-> << >>,
      ops |-> [o \in OpIds |-> IdleOp], batch |-> NoBatch,
      msg |-> NoMsg,
      savePc |-> "idle", saveVal |-> DEFAULT_SETTINGS, inits |-> NoInits,
      running |-> FALSE, rerun |-> FALSE, scan |-> NoScan, alarm |-> NoAlarm,
      scanActive |-> 0, pendingTrig |-> 0, fin |-> NoFin,
      lastOp |-> IdleOp, closedWithRec |-> {}, probe |-> NoProbe ]

\* The state is W.
Is(W) ==
    /\ now = W.now
    /\ ticks = W.ticks
    /\ calls = W.calls
    /\ events = W.events
    /\ settings = W.settings
    /\ storedSettings = W.storedSettings
    /\ tabs = W.tabs
    /\ nextTabId = W.nextTabId
    /\ strip = W.strip
    /\ suspendedTabsCache = W.cache
    /\ lastActivityMap = W.act
    /\ stored = W.stored
    /\ wq = W.wq
    /\ ops = W.ops
    /\ batch = W.batch
    /\ msg = W.msg
    /\ savePc = W.savePc
    /\ saveVal = W.saveVal
    /\ inits = W.inits
    /\ scanRunning = W.running
    /\ scanRerunRequested = W.rerun
    /\ scan = W.scan
    /\ alarm = W.alarm
    /\ scanActive = W.scanActive
    /\ pendingTrig = W.pendingTrig
    /\ fin = W.fin
    /\ lastOp = W.lastOp
    /\ closedWithRec = W.closedWithRec
    /\ probe = W.probe

\* init (lines 556-564) run alone from the fresh worker to its end, and the
\* scans it starts run to their end: the worker at rest, its wake timer set.
Booted(tab2, s) ==
    LET B0 == [Fresh(tab2, s) EXCEPT !.inits.settings = 1]
        B1 == loadSettings(B0)
        B2 == loadSuspendedCache(B1)
        B3 == IF B2.scan.pc = "query" THEN scanQueried(B2) ELSE B2
        B4 == IF B3.scan.pc = "query" THEN scanQueried(B3) ELSE B3
    IN  [B4 EXCEPT !.fin = NoFin]

\* ------------------------------------------------------------------------
\* Actions: suspendTab and unsuspendTab, one await at a time
\* ------------------------------------------------------------------------
Reasons == {"manual", "auto"}

\* Calls of suspendTab that have not yet had their placeholder created.
WantTab(O) == Cardinality({o \in OpIds : O[o].pc \in {"get", "create"}})

Called(W)   == [W EXCEPT !.calls = W.calls + 1]
Happened(W) == [W EXCEPT !.events = W.events + 1]

\* A new call takes the first idle slot (the slots are interchangeable).
SlotFree(o) ==
    /\ calls < MaxCalls
    /\ ~InFlight(ops[o])
    /\ o = "m2" => InFlight(ops["m1"])

\* A message or command calls suspendTab(t, reason).  Up to its first await
\* suspendTab only issues tabs.get, so what happens before the tab is read
\* could as well have happened before the call: the call and the reading of
\* the tab are one step.
SuspendCall(o, t, reason) ==
    /\ SlotFree(o)
    /\ tabs[t].st # "none"
    /\ nextTabId + WantTab(ops) <= MaxTabId
    /\ Becomes(suspendTabGot(suspendTabCall(Called(Cur), o, t, reason), o))

SuspGot(o) ==
    /\ ops[o].kind = "suspend" /\ ops[o].pc = "get"
    /\ Becomes(suspendTabGot(Cur, o))

\* The window is open: it has a tab.
WindowOpen == \E t \in TabIds : tabs[t].st = "open"

\* tabs.create succeeds (in a window that is still there).
SuspCreated(o) ==
    /\ ops[o].pc = "create"
    /\ nextTabId <= MaxTabId
    /\ WindowOpen
    /\ Becomes(suspendTabCreated(Cur, o))

SuspCreateFailed(o) ==
    /\ ops[o].pc = "create"
    /\ Becomes(suspendTabFallback(Cur, o))

SuspMoveFailed(o) ==
    /\ ops[o].pc = "move"
    /\ Becomes(suspendTabMoveFailed(Cur, o))

SuspRemoveFailed(o) ==
    /\ ops[o].pc = "remove"
    /\ tabs[ops[o].tabId].st = "open"
    /\ Becomes(routerOpReturned(suspendTabRemoveFailed(Cur, o), o))

SuspMoved(o) ==
    /\ ops[o].pc = "move"
    /\ Becomes(suspendTabMoved(Cur, o))

\* The call's own write is the next to land.
WriteLands(o) == wq # << >> /\ Head(wq).by = o

SuspPersisted(o) ==
    /\ ops[o].pc = "persist" /\ WriteLands(o)
    /\ Becomes(suspendTabPersisted(Cur, o))

SuspRemoved(o) ==
    /\ ops[o].pc = "remove"
    /\ Becomes(routerOpReturned(suspendTabRemoved(Cur, o), o))

SuspNavPersisted(o) ==
    /\ ops[o].pc = "navPersist" /\ WriteLands(o)
    /\ Becomes(suspendTabNavPersisted(Cur, o))

SuspNavUpdated(o) ==
    /\ ops[o].pc = "navUpdate"
    /\ Becomes(routerOpReturned(suspendTabNavUpdated(Cur, o), o))

\* The call's own write is the next to be served, and is rejected.
PersistFailed(o) ==
    /\ ops[o].pc \in {"persist", "navPersist", "uPersist"}
    /\ wq # << >> /\ Head(wq).by = o
    /\ Becomes(persistFailed(Cur, o))

UnsuspendCall(o, t) ==
    /\ SlotFree(o)
    /\ tabs[t].st # "none"
    /\ Becomes(unsuspendTabCall(Called(Cur), o, t))

UnsuspPersisted(o) ==
    /\ ops[o].pc = "uPersist" /\ WriteLands(o)
    /\ Becomes(unsuspendTabPersisted(Cur, o))

UnsuspUpdated(o) ==
    /\ ops[o].pc = "uUpdate"
    /\ Becomes(routerOpReturned(unsuspendTabUpdated(Cur, o), o))

\* ------------------------------------------------------------------------
\* Actions: the browser and the user
\* ------------------------------------------------------------------------
\* The user closes tab t.  (Closing the last tab of the window closes the
\* window, and the session ends: another tab stays open.)
CloseTab(t) ==
    /\ events < MaxEvents
    /\ tabs[t].st = "open"
    /\ \E u \in TabIds : u # t /\ tabs[u].st = "open"
    /\ Becomes(closeTab(Happened(Cur), "user", t))

\* The addresses a user navigates a tab to.
NavUrls == {UrlB}

\* The user navigates tab t to url.
Navigate(t, url) ==
    /\ events < MaxEvents
    /\ tabs[t].st = "open"
    /\ tabs[t].url # url
    /\ Becomes(navigateTab(Happened(Cur), "user", t, url))

\* A write issued by an event listener (not awaited) lands.
LandEventWrite ==
    /\ WriteLands("ev")
    /\ Becomes(landWrite(Cur))

\* ------------------------------------------------------------------------
\* Actions: the scheduler's triggers and the scan
\* ------------------------------------------------------------------------
\* The steps by which the clock advances: 2 s, 2 s less than 30 min, 31 min.
TickSteps == {2000, 30 * MsPerMinute - 2000, 31 * MsPerMinute}

Tick(d) ==
    /\ ticks < MaxTicks
    /\ Becomes([Cur EXCEPT !.now = now + d, !.ticks = ticks + 1])

\* chrome.alarms.onAlarm listener (lines 378-386): the wake timer fires once.
AlarmFires ==
    /\ alarm.on
    /\ now >= alarm.when
    /\ Becomes(runInactivityScan([Cur EXCEPT !.alarm = NoAlarm], FALSE))

\* The user switches to tab t.  (The worker reads a tab's lastAccessed only
\* while the tab has no entry in lastActivityMap, line 332, and this event
\* gives it one: lastAccessed is left as it is.)
Activated(t) ==
    /\ tabs[t].st = "open"
    /\ ~tabs[t].active
    /\ Becomes(onActivated([Cur EXCEPT !.tabs = Activate(tabs, t)], t))

\* The content script of tab t reports activity (src/content.js).
ActivityPing(t) ==
    /\ tabs[t].st = "open"
    /\ StartsWith(tabs[t].url, HttpPrefix)
    /\ lastActivityMap[t] # now
    /\ Becomes(activityPing(Cur, t))

\* The settings the options page saves, one key at a time.
SaveKeys == {"autoSuspendTime", "autoSuspend"}
SaveValues(k) == IF k = "autoSuspendTime" THEN {0, 1} ELSE {FALSE}

SaveSettings(k, v) ==
    /\ calls < MaxCalls
    /\ savePc = "idle"
    /\ Becomes(saveSettingsCall(Called(Cur), k, v))

SaveWritten ==
    /\ savePc = "write"
    /\ Becomes(routerSaved(saveSettingsWritten(Cur), TRUE))

\* onInstalled / onStartup (lines 566-571): init is called, and awaits the
\* stored settings.
InitCalled ==
    /\ calls < MaxCalls
    /\ Becomes([Called(Cur) EXCEPT !.inits.settings = inits.settings + 1])

InitSettingsLoaded ==
    /\ inits.settings > 0
    /\ Becomes(loadSettings(Cur))

\* chrome.storage.local.get rejects in loadSettings.
InitSettingsLoadFailed ==
    /\ inits.settings > 0
    /\ Becomes(loadSettingsFailed(Cur))

InitCacheLoaded ==
    /\ inits.cache > 0
    /\ Becomes(loadSuspendedCache(Cur))

\* chrome.storage.local.get rejects in loadSuspendedCache.
InitCacheLoadFailed ==
    /\ inits.cache > 0
    /\ Becomes(loadSuspendedCacheFailed(Cur))

ScanQueried ==
    /\ scan.pc = "query"
    /\ Becomes(scanQueried(Cur))

ScanQueryFailed ==
    /\ scan.pc = "query"
    /\ Becomes(scanQueryFailed(Cur))

\* ------------------------------------------------------------------------
\* Actions: the batch operations
\* ------------------------------------------------------------------------
BatchKinds == {"suspendAll", "suspendOthers", "unsuspendAll"}

\* A message or command calls a batch; both callers of suspendAllTabs pass
\* includeActive = true (lines 443, 514).
BatchCall(kind) ==
    /\ batch.pc = "idle"
    /\ Becomes(batchCall(Cur, kind, TRUE))

\* suspendAllTabs(false): the function's other mode, which no caller in the
\* worker uses.
BatchCallInactive ==
    /\ batch.pc = "idle"
    /\ Becomes(batchCall(Cur, "suspendAll", FALSE))

BatchQueriedActive ==
    /\ batch.pc = "queryActive"
    /\ Becomes(batchQueriedActive(Cur))

BatchQueried ==
    /\ batch.pc = "query"
    /\ Becomes(routerBatchReturned(batchQueried(Cur)))

BatchQueryFailed ==
    /\ batch.pc \in {"queryActive", "query"}
    /\ Becomes(routerBatchReturned(batchQueryFailed(Cur)))

\* The single-tab call of the batch goes on from a host call that has one
\* outcome in the model.
batchOpStep(W) ==
    LET pc == W.ops["batch"].pc
    IN  IF pc = "get" THEN suspendTabGot(W, "batch")
        ELSE IF pc = "move" THEN suspendTabMoved(W, "batch")
        ELSE IF pc = "remove" THEN suspendTabRemoved(W, "batch")
        ELSE IF pc = "navUpdate" THEN suspendTabNavUpdated(W, "batch")
        ELSE unsuspendTabUpdated(W, "batch")

BatchOpStep ==
    /\ ops["batch"].pc \in {"get", "move", "remove", "navUpdate", "uUpdate"}
    /\ Becomes(routerBatchReturned(batchReturned(batchOpStep(Cur))))

\* The single-tab call's persist is over.
batchOpPersisted(W) ==
    LET pc == W.ops["batch"].pc
    IN  IF pc = "persist" THEN suspendTabPersisted(W, "batch")
        ELSE IF pc = "navPersist" THEN suspendTabNavPersisted(W, "batch")
        ELSE unsuspendTabPersisted(W, "batch")

BatchOpPersisted ==
    /\ ops["batch"].pc \in {"persist", "navPersist", "uPersist"}
    /\ WriteLands("batch")
    /\ Becomes(batchOpPersisted(Cur))

BatchCreated ==
    /\ ops["batch"].pc = "create"
    /\ nextTabId <= MaxTabId
    /\ WindowOpen
    /\ Becomes(suspendTabCreated(Cur, "batch"))

BatchCreateFailed ==
    /\ ops["batch"].pc = "create"
    /\ Becomes(suspendTabFallback(Cur, "batch"))

\* ------------------------------------------------------------------------
\* Actions: the message router
\* ------------------------------------------------------------------------
RouterActions ==
    {"getSettings", "getChromeShortcuts", "getSuspendedTabData", "restoreTab",
     "activityPing", "unsuspendTab", "frobnicate"}
        \cup SaveActions \cup SuspendActions \cup BatchActions

\* No handler is running.
RouterIdle == msg.pc \in {"idle", "done", "dead"}

\* A page sends a message: its action, the tab it is sent from (0: the
\* popup or the options page), and the fields the action reads.
Receive(action, senderTab, reqTab, reqUrl, k, v) ==
    /\ calls < MaxCalls
    /\ RouterIdle
    /\ senderTab # 0 => tabs[senderTab].st = "open"
    /\ reqTab # 0 =>
           /\ action \in SuspendActions \cup {"unsuspendTab"}
           /\ tabs[reqTab].st # "none"
    /\ reqUrl => action = "restoreTab"
    /\ action \notin SaveActions => k = "autoSuspendTime" /\ v = 1
    /\ action \in SaveActions => savePc = "idle"
    /\ Becomes(routerDispatch(Called(Cur), action, senderTab, reqTab, reqUrl,
                              k, v))

RouterResolved ==
    /\ msg.pc = "resolve"
    /\ Becomes(routerResolved(Cur))

RouterResolveFailed ==
    /\ msg.pc = "resolve"
    /\ Becomes(routerThrew(Cur))

CmdsListed ==
    /\ msg.pc = "cmds"
    /\ Becomes(routerCmdsListed(Cur))

CmdsFailed ==
    /\ msg.pc = "cmds"
    /\ Becomes(routerThrew(Cur))

RestoreUpdated ==
    /\ msg.pc = "restoreUpdate"
    /\ Becomes(routerRestoreUpdated(Cur, UrlA))

\* chrome.storage.local.set rejects (line 98).
SaveFailed ==
    /\ savePc = "write"
    /\ Becomes(routerSaved(saveSettingsFailed(Cur), FALSE))

\* ------------------------------------------------------------------------
\* Actions: the pure functions, evaluated once on given arguments
\* ------------------------------------------------------------------------
EvalWhitelist(url) ==
    /\ probe.kind = "none"
    /\ Becomes([Cur EXCEPT !.probe =
           [NoProbe EXCEPT !.kind = "wl", !.url = url,
                           !.res = isWhitelisted(url, settings)]])

EvalEligible(tab, reason) ==
    /\ probe.kind = "none"
    /\ Becomes([Cur EXCEPT !.probe =
           [NoProbe EXCEPT !.kind = "el", !.tab = tab, !.reason = reason,
                           !.res = eligibleForSuspend(tab, reason, settings)]])

\* ------------------------------------------------------------------------
\* Spec: the suspension engine under concurrent manual requests and user
\* events, with the scheduler switched off (autoSuspend = false)
\* ------------------------------------------------------------------------
EngineSettings == [DEFAULT_SETTINGS EXCEPT !.autoSuspend = FALSE]

Init == \E tab2 \in Tab2Choices : Is(Fresh(tab2, EngineSettings))

Next ==
    \/ \E o \in ManualOps, t \in TabIds, r \in Reasons : SuspendCall(o, t, r)
    \/ \E o \in ManualOps : SuspCreated(o)
    \/ \E o \in ManualOps : SuspCreateFailed(o)
    \/ \E o \in ManualOps : SuspMoved(o)
    \/ \E o \in ManualOps : SuspPersisted(o)
    \/ \E o \in ManualOps : SuspRemoved(o)
    \/ \E o \in ManualOps : SuspNavPersisted(o)
    \/ \E o \in ManualOps : SuspNavUpdated(o)
    \/ \E o \in ManualOps, t \in TabIds : UnsuspendCall(o, t)
    \/ \E o \in ManualOps : UnsuspPersisted(o)
    \/ \E o \in ManualOps : UnsuspUpdated(o)
    \/ \E t \in TabIds : CloseTab(t)
    \/ \E t \in TabIds, u \in NavUrls : Navigate(t, u)
    \/ LandEventWrite

Spec == Init /\ [][Next]_vars

\* ------------------------------------------------------------------------
\* SpecSeq: the suspension engine serving one request at a time, the user
\* closing and navigating tabs between requests
\* ------------------------------------------------------------------------
Quiet == \A o \in OpIds : ~InFlight(ops[o])

CloseTabQuiet(t) == Quiet /\ CloseTab(t)

NavigateQuiet(t, url) == Quiet /\ Navigate(t, url)

NextSeq ==
    \/ \E t \in TabIds, r \in Reasons : SuspendCall("m1", t, r)
    \/ SuspCreated("m1")
    \/ SuspCreateFailed("m1")
    \/ SuspMoved("m1")
    \/ SuspPersisted("m1")
    \/ SuspRemoved("m1")
    \/ SuspNavPersisted("m1")
    \/ SuspNavUpdated("m1")
    \/ \E t \in TabIds : UnsuspendCall("m1", t)
    \/ UnsuspPersisted("m1")
    \/ UnsuspUpdated("m1")
    \/ \E t \in TabIds : CloseTabQuiet(t)
    \/ \E t \in TabIds, u \in NavUrls : NavigateQuiet(t, u)
    \/ LandEventWrite

SpecSeq == Init /\ [][NextSeq]_vars

\* ------------------------------------------------------------------------
\* SpecOthers: one call of suspendOtherTabs, suspendAllTabs(true) or
\* suspendAllTabs(false); the user switches and closes tabs at any await
\* ------------------------------------------------------------------------
NextOthers ==
    \/ \E k \in {"suspendOthers", "suspendAll"} : BatchCall(k)
    \/ BatchCallInactive
    \/ BatchQueriedActive
    \/ BatchQueried
    \/ BatchOpStep
    \/ BatchOpPersisted
    \/ BatchCreated
    \/ \E t \in TabIds : Activated(t)
    \/ \E t \in TabIds : CloseTab(t)
    \/ LandEventWrite

SpecOthers == Init /\ [][NextOthers]_vars

\* ------------------------------------------------------------------------
\* SpecTwice: suspendTab called on a tab, and called again on the same tab
\* while a call on it is in flight; tabs.create succeeds or rejects; nothing
\* else happens
\* ------------------------------------------------------------------------
SuspendSame(o, t, reason) ==
    /\ \/ calls = 0
       \/ \E o2 \in ManualOps \ {o} : InFlight(ops[o2]) /\ ops[o2].tabId = t
    /\ SuspendCall(o, t, reason)

NextTwice ==
    \/ \E o \in ManualOps, t \in TabIds, r \in Reasons : SuspendSame(o, t, r)
    \/ \E o \in ManualOps : SuspCreated(o)
    \/ \E o \in ManualOps : SuspCreateFailed(o)
    \/ \E o \in ManualOps : SuspMoved(o)
    \/ \E o \in ManualOps : SuspPersisted(o)
    \/ \E o \in ManualOps : SuspRemoved(o)
    \/ \E o \in ManualOps : SuspNavPersisted(o)
    \/ \E o \in ManualOps : SuspNavUpdated(o)
    \/ LandEventWrite

SpecTwice == Init /\ [][NextTwice]_vars

\* ------------------------------------------------------------------------
\* SpecReplace: the replace strategy serving one request at a time, on
\* pinned and unpinned, active and inactive tabs; tabs.move and tabs.remove
\* may reject; the user switches tabs between requests
\* ------------------------------------------------------------------------
ReplaceSettings == [EngineSettings EXCEPT !.ignorePinned = FALSE]

ReplaceTab2Choices ==
    { MkTab(2, "open", UrlB, << >>, FALSE, p, FALSE, StartTime) : p \in BOOLEAN }

InitReplace ==
    \E tab2 \in ReplaceTab2Choices : Is(Fresh(tab2, ReplaceSettings))

ActivatedQuiet(t) == Quiet /\ Activated(t)

NextReplace ==
    \/ \E t \in TabIds, r \in Reasons : SuspendCall("m1", t, r)
    \/ SuspCreated("m1")
    \/ SuspMoved("m1")
    \/ SuspMoveFailed("m1")
    \/ SuspPersisted("m1")
    \/ SuspRemoved("m1")
    \/ SuspRemoveFailed("m1")
    \/ \E t \in TabIds : ActivatedQuiet(t)

SpecReplace == InitReplace /\ [][NextReplace]_vars

\* ------------------------------------------------------------------------
\* SpecAuto: the worker at rest after init, automatic suspension on; the
\* clock advances, the wake timer fires, the user switches tabs and is
\* active in them; host calls succeed
\* ------------------------------------------------------------------------
AllIgnoreFlagsOff ==
    [DEFAULT_SETTINGS EXCEPT !.ignorePinned = FALSE, !.ignoreAudio = FALSE,
                             !.ignoreActive = FALSE]

OneMinute == [DEFAULT_SETTINGS EXCEPT !.autoSuspendTime = 1]

AutoSettings == {DEFAULT_SETTINGS, AllIgnoreFlagsOff, OneMinute}

InitAuto ==
    \E tab2 \in Tab2Choices, s \in AutoSettings : Is(Booted(tab2, s))

ScanSteps ==
    \/ ScanQueried
    \/ SuspGot("scan")
    \/ SuspCreated("scan")
    \/ SuspMoved("scan")
    \/ SuspPersisted("scan")
    \/ SuspRemoved("scan")

NextAuto ==
    \/ \E d \in TickSteps : Tick(d)
    \/ AlarmFires
    \/ \E t \in TabIds : Activated(t)
    \/ \E t \in TabIds : ActivityPing(t)
    \/ ScanSteps

SpecAuto == InitAuto /\ [][NextAuto]_vars

\* ------------------------------------------------------------------------
\* SpecSched: SpecAuto with a tabs.query of the scan that may reject
\* ------------------------------------------------------------------------
NextSched == NextAuto \/ ScanQueryFailed

SpecSched == InitAuto /\ [][NextSched]_vars

\* ------------------------------------------------------------------------
\* SpecScanFail: SpecAuto with a threshold of one minute, with and without
\* a whitelist entry that is no valid pattern, the user closing a tab at any
\* await, and tabs.create failing
\* ------------------------------------------------------------------------
BrokenWhitelist == [OneMinute EXCEPT !.urlWhitelist = <<"(">>]

InitScanFail ==
    \E tab2 \in Tab2Choices, s \in {OneMinute, BrokenWhitelist} :
        Is(Booted(tab2, s))

NextScanFail ==
    \/ NextAuto
    \/ SuspCreateFailed("scan")
    \/ SuspNavPersisted("scan")
    \/ SuspNavUpdated("scan")
    \/ \E t \in TabIds : CloseTab(t)
    \/ LandEventWrite

SpecScanFail == InitScanFail /\ [][NextScanFail]_vars

\* ------------------------------------------------------------------------
\* SpecScan: the scheduler from the loading of the worker on, under every
\* source of scan triggers: init calls, settings saves, tab activations
\* and the wake timer
\* ------------------------------------------------------------------------
InitScan ==
    \E tab2 \in Tab2Choices :
        Is([Fresh(tab2, DEFAULT_SETTINGS) EXCEPT !.inits.settings = 1])

NextScan ==
    \/ NextAuto
    \/ \E k \in SaveKeys : \E v \in SaveValues(k) : SaveSettings(k, v)
    \/ SaveWritten
    \/ InitCalled
    \/ InitSettingsLoaded
    \/ InitCacheLoaded

SpecScan == InitScan /\ [][NextScan]_vars

\* ------------------------------------------------------------------------
\* SpecBatch: one batch operation, with single requests before and during
\* it, the user closing and navigating tabs at any await, and host calls
\* that fail
\* ------------------------------------------------------------------------
NextBatch ==
    \/ \E k \in BatchKinds : BatchCall(k)
    \/ BatchQueriedActive
    \/ BatchQueried
    \/ BatchQueryFailed
    \/ BatchOpStep
    \/ BatchOpPersisted
    \/ BatchCreated
    \/ BatchCreateFailed
    \/ NextSeq
    \/ \E t \in TabIds : CloseTab(t)
    \/ \E t \in TabIds, u \in NavUrls : Navigate(t, u)

SpecBatch == Init /\ [][NextBatch]_vars

\* ------------------------------------------------------------------------
\* SpecLoad: the settings from the loading of the worker on, over stored
\* objects that are partial or hold an invalid autoSuspendTime, under init
\* calls and settings saves, with storage reads and writes that can fail
\* ------------------------------------------------------------------------
StoredTimes == {-5, 0, 1, 45}

StoredKeySets ==
    {SettingKeys, {}, {"autoSuspendTime"}, {"autoSuspend", "autoSuspendTime"},
     {"ignorePinned"}}

StoredObjects ==
    { [ keys |-> ks,
        val  |-> [DEFAULT_SETTINGS EXCEPT !.autoSuspendTime = n,
                                          !.autoSuspend = a,
                                          !.ignorePinned = FALSE],
        timeIsNumber |-> isNum ] :
      ks \in StoredKeySets, n \in StoredTimes, a \in BOOLEAN,
      isNum \in BOOLEAN }

\* A record as a suspension of a tab at url wrote it.
StoredRec(url) ==
    MkRec(MkTab(1, "open", url, TitleOf(url), FALSE, FALSE, FALSE, StartTime),
          "manual", "navigate", 0)

\* What is stored under the "suspendedTabs" key: nothing, records, and
\* values that are no records.
StoredRegistries ==
    { EmptyCache,
      [EmptyCache EXCEPT ![1] = StoredRec(UrlA), ![2] = NullEntry],
      [EmptyCache EXCEPT ![1] = NoUrlEntry, ![2] = StoredRec(UrlB),
                         ![3] = NumberEntry],
      [EmptyCache EXCEPT ![2] = NumUrlEntry, ![3] = StoredRec(UrlA)] }

InitLoad ==
    \E tab2 \in Tab2Choices, obj \in StoredObjects, reg \in StoredRegistries :
        Is([Fresh(tab2, DEFAULT_SETTINGS) EXCEPT !.storedSettings = obj,
                                                 !.stored = reg,
                                                 !.inits.settings = 1])

NextLoad ==
    \/ InitCalled
    \/ InitSettingsLoaded
    \/ InitSettingsLoadFailed
    \/ InitCacheLoaded
    \/ InitCacheLoadFailed
    \/ \E k \in SaveKeys : \E v \in SaveValues(k) : SaveSettings(k, v)
    \/ SaveWritten
    \/ SaveFailed
    \/ ScanQueried

SpecLoad == InitLoad /\ [][NextLoad]_vars

\* ------------------------------------------------------------------------
\* SpecReinit: init called again (onInstalled, onStartup) while the worker
\* serves a suspend, an unsuspend or a settings save; automatic suspension
\* is off and host calls succeed
\* ------------------------------------------------------------------------
NextReinit ==
    \/ InitCalled
    \/ InitSettingsLoaded
    \/ InitCacheLoaded
    \/ \E t \in TabIds, r \in Reasons : SuspendCall("m1", t, r)
    \/ SuspCreated("m1")
    \/ SuspMoved("m1")
    \/ SuspPersisted("m1")
    \/ SuspRemoved("m1")
    \/ \E t \in TabIds : UnsuspendCall("m1", t)
    \/ UnsuspPersisted("m1")
    \/ UnsuspUpdated("m1")
    \/ \E v \in SaveValues("autoSuspendTime") :
          SaveSettings("autoSuspendTime", v)
    \/ SaveWritten

SpecReinit == Init /\ [][NextReinit]_vars

\* ------------------------------------------------------------------------
\* SpecStore: SpecSeq with storage writes that can be rejected
\* ------------------------------------------------------------------------
NextStore ==
    \/ NextSeq
    \/ PersistFailed("m1")

SpecStore == Init /\ [][NextStore]_vars

\* ------------------------------------------------------------------------
\* SpecRouter: the message router serving one message at a time, the user
\* closing and navigating tabs at any await, and host calls that fail
\* ------------------------------------------------------------------------
NextRouter ==
    \/ \E a \in RouterActions, st \in {0} \cup TabIds, rt \in {0} \cup TabIds,
          u \in BOOLEAN, k \in SaveKeys :
          \E v \in SaveValues(k) : Receive(a, st, rt, u, k, v)
    \/ RouterResolved
    \/ RouterResolveFailed
    \/ CmdsListed
    \/ CmdsFailed
    \/ RestoreUpdated
    \/ SaveWritten
    \/ SaveFailed
    \/ SuspCreated("m1")
    \/ SuspCreateFailed("m1")
    \/ SuspMoved("m1")
    \/ SuspPersisted("m1")
    \/ SuspRemoved("m1")
    \/ SuspNavPersisted("m1")
    \/ SuspNavUpdated("m1")
    \/ UnsuspPersisted("m1")
    \/ UnsuspUpdated("m1")
    \/ BatchQueriedActive
    \/ BatchQueried
    \/ BatchQueryFailed
    \/ BatchOpStep
    \/ BatchOpPersisted
    \/ BatchCreated
    \/ BatchCreateFailed
    \/ \E t \in TabIds : CloseTab(t)
    \/ \E t \in TabIds, u \in NavUrls : Navigate(t, u)
    \/ LandEventWrite

SpecRouter == Init /\ [][NextRouter]_vars

\* ------------------------------------------------------------------------
\* SpecPure: isWhitelisted and eligibleForSuspend on enumerated arguments
\* ------------------------------------------------------------------------
WlAlphabet == {"a", ".", "*", ",", "("}

ExamplePattern ==
    <<"*", ".", "e", "x", "a", "m", "p", "l", "e", ".", "c", "o", "m", "/", "*">>
ExampleUrlIn ==
    <<"h", "t", "t", "p", "s", ":", "/", "/", "m", "a", "i", "l", ".",
      "e", "x", "a", "m", "p", "l", "e", ".", "c", "o", "m", "/",
      "i", "n", "b", "o", "x">>
ExampleUrlOut ==
    <<"h", "t", "t", "p", "s", ":", "/", "/",
      "e", "x", "a", "m", "p", "l", "e", ".", "o", "r", "g">>
\* Entries "*a" and "b", written with blanks, an empty line and a trailing
\* comma.
SpacedWhitelist == <<" ", "*", "a", " ", "CR", "NL", "NL", "b", ",">>

WlTexts ==
    StringsUpTo(WlAlphabet, MaxWlLen)
        \cup {ExamplePattern, SpacedWhitelist, <<"A">>}

ProbeUrls ==
    StringsUpTo({"a", "A", "."}, MaxUrlLen)
        \cup {ExampleUrlIn, ExampleUrlOut, UrlA, UrlB}

ProbeTabs ==
    { MkTab(id, "open", url, << >>, active, pinned, audible, StartTime) :
        id \in {0, 1},
        url \in {UrlA, UrlFile, UrlChrome, getSuspendedUrl(UrlA, << >>), NoUrl},
        active \in BOOLEAN, pinned \in BOOLEAN, audible \in BOOLEAN }

PureSettings ==
    { [DEFAULT_SETTINGS EXCEPT !.urlWhitelist = w, !.ignorePinned = p,
                               !.ignoreAudio = a, !.ignoreActive = c] :
        w \in WlTexts, p \in BOOLEAN, a \in BOOLEAN, c \in BOOLEAN }

InitPure ==
    \E tab2 \in Tab2Choices, s \in PureSettings : Is(Fresh(tab2, s))

NextPure ==
    \/ \E url \in ProbeUrls : EvalWhitelist(url)
    \/ \E tab \in ProbeTabs, r \in Reasons : EvalEligible(tab, r)

SpecPure == InitPure /\ [][NextPure]_vars

\* ------------------------------------------------------------------------
\* unsuspendTab run from its call to its return with nothing in between
\* ------------------------------------------------------------------------
\* The storage writes issued before the call's own land first.
RECURSIVE landUntil(_, _)
landUntil(W, o) ==
    IF W.wq # << >> /\ Head(W.wq).by # o THEN landUntil(landWrite(W), o) ELSE W

unsuspendTabRun(W, o, t) ==
    LET W1 == unsuspendTabCall(W, o, t)
    IN  IF W1.lastOp.res = "notSuspended" THEN W1
        ELSE unsuspendTabUpdated(
                 unsuspendTabPersisted(landUntil(W1, o), o), o)

\* ------------------------------------------------------------------------
\* The properties
\* ------------------------------------------------------------------------
\* suspendTab returned { success: true, ... }.
Succeeded(op) == op.kind = "suspend" /\ op.res \in {"replaced", "navigated"}

\* C1 (round trip).  Whenever a call of suspendTab has returned success,
\* an unsuspendTab of the resulting tab id (the placeholder's id after a
\* replace, the same id after a navigate) called next returns success and
\* leaves that tab at the address the tab had when it was suspended.
C1_RoundTrip ==
    Succeeded(lastOp) =>
        LET t == ResultId(lastOp)
            W == unsuspendTabRun(Cur, "m1", t)
        IN  /\ lastOp.res = "replaced" => (t = lastOp.newTab /\ t # lastOp.tabId)
            /\ lastOp.res = "navigated" => t = lastOp.tabId
            /\ W.lastOp.kind = "unsuspend"
            /\ W.lastOp.res = "restored"
            /\ W.tabs[t].st = "open"
            /\ W.tabs[t].url = lastOp.tab.url

\* C1 happens: a suspendTab has just replaced a tab by a placeholder that
\* shows the suspended page and that an unsuspendTab restores.
C1_Witness ==
    /\ Succeeded(lastOp)
    /\ lastOp.res = "replaced"
    /\ isExtensionSuspendedPage(tabs[lastOp.newTab].url)
    /\ unsuspendTabRun(Cur, "m1", lastOp.newTab).lastOp.res = "restored"

\* C2 (idempotence of suspend).  A call of suspendTab on a tab id that is
\* already suspended when the call reads the tab (the tab shows the
\* suspended page, or the id has a Registry record) returns already = true
\* and changes neither the Registry nor a tab.
C2_AlreadySuspended ==
    (lastOp.kind = "suspend" /\ (lastOp.pre.placeholder \/ lastOp.pre.hadRec))
        => (lastOp.res = "already" /\ ~lastOp.wrote)

\* C3 (scan mutual exclusion).  At most one execution of runInactivityScan
\* is past the guard at any time, and a trigger that hits the guard while
\* a scan is in flight sets scanRerunRequested and changes nothing of the
\* scan in flight.
C3_ScanMutualExclusion ==
    /\ [](scanActive <= 1 /\ (scanActive = 1 <=> scanRunning))
    /\ [][pendingTrig' > pendingTrig =>
            /\ scanRunning /\ scanRunning'
            /\ scanRerunRequested'
            /\ scanActive' = scanActive
            /\ scan' = scan]_vars

\* C3 happens: three triggers have hit the guard of a scan that is waiting
\* for a suspendTab it called.
C3_Witness ==
    /\ scanRunning
    /\ scan.pc = "suspend"
    /\ pendingTrig >= 3
    /\ scanRerunRequested

\* C4 (scan coalescing).  When a scan finishes that N >= 1 triggers hit
\* while it was in flight, its completion starts exactly one follow-up
\* scan, and starts it when no scan is running any more.
C4_ScanCoalescing ==
    (fin.done /\ fin.trig >= 1) => (fin.started = 1 /\ fin.after)

\* C4 happens: a scan that five triggers hit has just finished.
C4_Witness == fin.done /\ fin.trig = 5 /\ fin.started = 1

\* A wake timer's delay d, created by a scan run with threshold thr, is
\* within the clamp.
InClamp(d, thr) ==
    /\ FloorDelayMs <= d
    /\ d <= Max(thr, CeilingMs)
    /\ thr = 30 * MsPerMinute => d <= 30 * MsPerMinute

\* C5 (next-wake delay clamp).  Every wake timer a scan creates has a
\* delay of at least 5 s and at most max(threshold, 15 min); with a
\* threshold of 30 min, at most 30 min.
C5_DelayClamp ==
    /\ fin.sched => InClamp(fin.delay, fin.thr)
    /\ alarm.on => InClamp(alarm.delay, alarm.thr)

\* C5 happens: a scan has just created a wake timer for a tab that is due
\* in less than 5 s, and the delay is 5 s.
C5_Witness ==
    /\ fin.sched
    /\ ~fin.inf
    /\ fin.nextDelay < FloorDelayMs
    /\ fin.delay = FloorDelayMs

\* The Registry keys whose record is of original tab t.
RecordsOf(t) ==
    { k \in TabIds : /\ suspendedTabsCache[k] # NoRec
                     /\ suspendedTabsCache[k].originalTabId = t }

\* C6 (automatic suspension).  When a scan has finished, every tab it
\* found inactive for the threshold and eligible (and that was still
\* eligible when suspendTab read it) is gone, and the Registry holds
\* exactly one record of it, under the id of a placeholder tab that is not
\* the tab's own id, with reason auto, strategy replace and
\* placeholderTabId equal to the key.
C6_AutoSuspended ==
    fin.done =>
        \A t \in fin.found :
            /\ tabs[t].st = "closed"
            /\ Cardinality(RecordsOf(t)) = 1
            /\ \A k \in RecordsOf(t) :
                  /\ k # t
                  /\ tabs[k].st = "open"
                  /\ isExtensionSuspendedPage(tabs[k].url)
                  /\ suspendedTabsCache[k].reason = "auto"
                  /\ suspendedTabsCache[k].strategy = "replace"
                  /\ suspendedTabsCache[k].placeholderTabId = k

\* C6 happens: a scan run with the default threshold of 30 min has just
\* finished, and it found a tab to suspend.
C6_Witness ==
    /\ fin.done
    /\ fin.thr = DEFAULT_AUTO_SUSPEND_TIME * MsPerMinute
    /\ fin.found # {}

\* C7 (no orphan records).  Once no call is in flight and no storage write
\* is pending, every key of the Registry is the id of an open tab that
\* shows the suspended page.
C7_NoOrphanRecords ==
    (Quiet /\ wq = << >>) =>
        \A t \in TabIds :
            suspendedTabsCache[t] # NoRec =>
                /\ tabs[t].st = "open"
                /\ isExtensionSuspendedPage(tabs[t].url)

\* C8 (closing a suspended tab).  The closing of a tab that has a Registry
\* record removes the record and the tab's lastActivityMap entry, and from
\* then on getSuspendedTabData answers no record for that tab id.
C8_ClosedTabForgotten ==
    /\ [](\A c \in closedWithRec :
             getSuspendedTabData(suspendedTabsCache, c.id) = NoRec)
    /\ [][\A t \in TabIds :
            (/\ tabs[t].st = "open"
             /\ tabs'[t].st = "closed"
             /\ suspendedTabsCache[t] # NoRec)
            => (/\ suspendedTabsCache'[t] = NoRec
                /\ lastActivityMap'[t] = 0)]_vars

\* C8 happens: a tab that had a record and an activity entry has been
\* closed, and a later request has been served.
C8_Witness ==
    /\ \E c \in closedWithRec : c.hadActivity /\ tabs[c.id].st = "closed"
    /\ lastOp.pc = "done"

\* The matching of C10: "*" matches any sequence of characters, every other
\* character only itself, and the whole URL is matched.
RECURSIVE GlobMatch(_, _)
GlobMatch(entry, url) ==
    IF entry = << >> THEN url = << >>
    ELSE IF Head(entry) = "*"
         THEN \/ GlobMatch(Tail(entry), url)
              \/ (url # << >> /\ GlobMatch(entry, Tail(url)))
    ELSE /\ url # << >>
         /\ Head(url) = Head(entry)
         /\ GlobMatch(Tail(entry), Tail(url))

WhitelistedAsSpecified(url, s) ==
    LET wl == whitelistEntries(s.urlWhitelist)
    IN  \E i \in 1..Len(wl) : GlobMatch(wl[i], url)

EligibleAsSpecified(tab, reason, s) ==
    /\ tab.id # 0
    /\ StartsWith(tab.url, HttpPrefix) \/ StartsWith(tab.url, FilePrefix)
    /\ ~isExtensionSuspendedPage(tab.url)
    /\ ~(s.ignorePinned /\ tab.pinned)
    /\ ~(s.ignoreAudio /\ tab.audible)
    /\ ~(s.ignoreActive /\ tab.active /\ reason = "auto")
    /\ ~WhitelistedAsSpecified(tab.url, s)

\* C9 (eligibility predicate).  eligibleForSuspend(tab, reason) is true
\* exactly when the tab has an id and an http or file address, does not
\* show the suspended page, is not excluded by ignorePinned, ignoreAudio
\* or (for reason auto only) ignoreActive, and its address matches no
\* whitelist pattern.
C9_EligibilityPredicate ==
    probe.kind = "el" =>
        (probe.res = "yes" <=>
            EligibleAsSpecified(probe.tab, probe.reason, settings))

\* C10 (whitelist matching).  isWhitelisted(url) is true exactly when some
\* whitelist entry matches the whole URL, "*" standing for any sequence of
\* characters and every other character for itself.
C10_WhitelistGlob ==
    probe.kind = "wl" =>
        (probe.res = "yes" <=> WhitelistedAsSpecified(probe.url, settings))

\* C11 (ineligible suspension is reported as ignored).  A call of
\* suspendTab that the eligibility policy rejects returns an object with
\* success = false, ignored = true and no error field.
C11_IneligibleIgnored ==
    (lastOp.kind = "suspend" /\ lastOp.pre.eligible = "no") =>
        LET r == suspendResult(lastOp.res)
        IN  ~r.success /\ r.ignored /\ ~r.error

\* C12 (unsuspend deletes before it navigates and never rolls back).  A
\* call of unsuspendTab on an id without a record returns notSuspended and
\* changes nothing.  On an id with a record, the call removes the record
\* and issues the persist of the Registry without it, and issues tabs.update
\* only once that persist is over; when tabs.update fails the call returns
\* an error, puts nothing back, and the record is absent unless another
\* call has written one for the id meanwhile.
C12_UnsuspendDeletesFirst ==
    /\ [][(lastOp'.kind = "unsuspend" /\ lastOp'.res = "notSuspended") =>
            /\ suspendedTabsCache[lastOp'.tabId] = NoRec
            /\ suspendedTabsCache' = suspendedTabsCache
            /\ tabs' = tabs
            /\ wq' = wq
            /\ stored' = stored]_vars
    /\ [][\A o \in OpIds :
            (~InFlight(ops[o]) /\ ops'[o].pc = "uPersist") =>
                /\ suspendedTabsCache[ops'[o].tabId] # NoRec
                /\ suspendedTabsCache'[ops'[o].tabId] = NoRec
                /\ wq' = Append(wq, [by |-> o, val |-> suspendedTabsCache'])
                /\ tabs' = tabs]_vars
    /\ [][\A o \in OpIds :
            (ops[o].pc # "uUpdate" /\ ops'[o].pc = "uUpdate") =>
                /\ ops[o].pc = "uPersist"
                /\ Head(wq).by = o
                /\ stored' = Head(wq).val
                /\ stored'[ops[o].tabId] = NoRec
                /\ tabs' = tabs]_vars
    /\ [][(lastOp'.kind = "unsuspend" /\ lastOp'.res = "error") =>
            /\ suspendedTabsCache' = suspendedTabsCache
            /\ tabs' = tabs
            /\ ~lastOp'.hit => suspendedTabsCache'[lastOp'.tabId] = NoRec]_vars

\* C12 happens: an unsuspendTab of a tab that had a record has just
\* returned an error, its tab having been closed while it was in flight.
C12_Witness ==
    /\ lastOp.kind = "unsuspend"
    /\ lastOp.res = "error"
    /\ lastOp.rec # NoRec
    /\ tabs[lastOp.tabId].st = "closed"
    /\ suspendedTabsCache[lastOp.tabId] = NoRec

\* The call took the navigate fallback: it wrote, and created no placeholder.
FellBack(op) == op.kind = "suspend" /\ op.wrote /\ op.newTab = 0

\* C13 (replace-to-navigate fallback).  A call of suspendTab whose replace
\* strategy failed has, once it has returned, set the same tab's address
\* to the suspended-page URL, left exactly one record of the tab, under the
\* tab's own id and with strategy navigate, and returned success = true with
\* navigated = true; while it is in flight the record it wrote is already
\* of strategy navigate.
C13_NavigateFallback ==
    /\ \A o \in OpIds :
          ops[o].pc \in {"navPersist", "navUpdate"} =>
              /\ FellBack(ops[o])
              /\ suspendedTabsCache[ops[o].tabId].strategy = "navigate"
    /\ (lastOp.pc = "done" /\ FellBack(lastOp)) =>
          LET t == lastOp.tabId
              r == suspendResult(lastOp.res)
          IN  /\ r.success /\ r.navigated /\ ~r.replaced /\ ~r.error
              /\ tabs[t].st = "open"
              /\ tabs[t].url = getSuspendedUrl(lastOp.tab.url, lastOp.tab.title)
              /\ isExtensionSuspendedPage(tabs[t].url)
              /\ RecordsOf(t) = {t}
              /\ suspendedTabsCache[t].strategy = "navigate"
              /\ suspendedTabsCache[t].url = lastOp.tab.url
              /\ suspendedTabsCache[t].placeholderTabId = 0

\* C13 happens: a suspendTab whose tabs.create threw has just returned.
C13_Witness ==
    /\ lastOp.pc = "done"
    /\ FellBack(lastOp)
    /\ lastOp.pre.eligible = "yes"
    /\ ~lastOp.pre.hadRec
    /\ lastOp.res = "navigated"

\* The tabs of a batch's snapshot that are in its tab set.
InTabSet(b, tb) ==
    IF b.kind = "suspendOthers" THEN tb.id # b.activeId
    ELSE IF b.kind = "suspendAll" THEN b.includeActive \/ ~tb.active
    ELSE TRUE

\* C14 (batch operations survive per-tab failures).  A batch that has
\* returned has called the single-tab operation on every tab of its tab
\* set, in order and once each, whatever the earlier calls returned, and
\* returns success = true with count equal to the number of those calls
\* that returned success = true.
C14_BatchSurvivesFailures ==
    batch.pc = "done" =>
        LET set == SelectSeq(batch.snap, LAMBDA tb : InTabSet(batch, tb))
        IN  /\ batch.invoked = [i \in 1..Len(set) |-> set[i].id]
            /\ Len(batch.results) = Len(batch.invoked)
            /\ batchResult(batch).success
            /\ batchResult(batch).count =
                   Cardinality({i \in 1..Len(batch.results) :
                                   opSucceeded(batch.results[i])})

\* C14 happens: a batch has returned whose first single-tab call did not
\* succeed and whose second did.
C14_Witness ==
    /\ batch.pc = "done"
    /\ Len(batch.results) >= 2
    /\ ~opSucceeded(batch.results[1])
    /\ opSucceeded(batch.results[2])
    /\ batch.count >= 1

\* A saveSettings that set autoSuspend = false has completed (its storage
\* write is over and its configureAlarm has run), and no later save or load
\* has set autoSuspend = true.
AutoSuspendOff == ~settings.autoSuspend /\ ~storedSettings.val.autoSuspend

\* C15 (turning auto-suspend off stops the scheduler).  While auto-suspend
\* is off, no wake timer is pending, and no step puts a record with reason
\* auto into the Registry.
C15_OffStopsScheduler ==
    /\ [](AutoSuspendOff => ~alarm.on)
    /\ [][(AutoSuspendOff /\ AutoSuspendOff') =>
            \A t \in TabIds :
                (suspendedTabsCache'[t] # NoRec /\
                 suspendedTabsCache'[t].reason = "auto")
                    => suspendedTabsCache'[t] = suspendedTabsCache[t]]_vars

\* C16: every message gets exactly one response: when the handler of a
\* message has ended, sendResponse has been called once for it; and a message
\* with an unknown action is answered with success = false and an error.
RouterEnded == msg.pc \in {"done", "dead"}

C16_EveryMessageAnswered ==
    /\ RouterEnded => msg.responses = 1
    /\ (msg.pc = "done" /\ msg.action \notin RouterActions \ {"frobnicate"})
           => msg.resp = MkResp(TRUE, FALSE, TRUE)

\* C17: the response of an operation-bearing message reports success
\* exactly when the operation it ran succeeded.
C17_SuccessIsOperationSuccess ==
    (msg.pc = "done" /\ msg.opSuccess # "none")
        => msg.resp.success = (msg.opSuccess = "succeeded")
\* C18: whenever suspendTab or unsuspendTab returns success = true with a
\* Registry change made (a record added by a suspend, a record removed by an
\* unsuspend), the stored Registry holds that change at the return.
C18_DurableOnSuccess ==
    /\ Succeeded(lastOp) => stored[ResultId(lastOp)] # NoRec
    /\ (lastOp.kind = "unsuspend" /\ lastOp.res = "restored")
           => stored[lastOp.tabId] = NoRec
\* What a load of the stored object obj is to leave in memory: each key from
\* the object where it has it, else from the defaults, and autoSuspendTime
\* from the object only when it is a number above 0.
ExpectedLoad(obj) ==
    [k \in SettingKeys |->
        IF k = "autoSuspendTime"
        THEN IF k \in obj.keys /\ obj.timeIsNumber /\ obj.val[k] > 0
             THEN obj.val[k] ELSE DEFAULT_AUTO_SUSPEND_TIME
        ELSE IF k \in obj.keys THEN obj.val[k] ELSE DEFAULT_SETTINGS[k]]

\* C19: a run of loadSettings leaves in memory the stored settings merged
\* over the defaults, with the default autoSuspendTime (30) in place of a
\* stored one that is not a number or is <= 0, and leaves storage as it was;
\* when the read fails it leaves exactly the defaults.
C19_LoadValidated ==
    [][inits'.settings < inits.settings =>
          /\ storedSettings' = storedSettings
          /\ DEFAULT_AUTO_SUSPEND_TIME = 30
          /\ IF inits'.read = "failed" THEN settings' = DEFAULT_SETTINGS
             ELSE settings' = ExpectedLoad(storedSettings)]_vars

C19_Witness ==
    /\ calls = 0 /\ inits.read = "ok"
    /\ "autoSuspendTime" \in storedSettings.keys
    /\ storedSettings.timeIsNumber
    /\ storedSettings.val.autoSuspendTime = -5
    /\ settings.autoSuspendTime = DEFAULT_AUTO_SUSPEND_TIME
    /\ settings.autoSuspend = storedSettings.val.autoSuspend

\* C20: the in-memory autoSuspendTime is a number greater than 0.
C20_TimePositive == settings.autoSuspendTime > 0

\* C21: a call of saveSettings changes at most the fields of its update in
\* memory; when the call completes, what is stored equals the settings in
\* memory, the wake timer is cleared and, with autoSuspend on, a scan has
\* been triggered (it runs, has run, or is requested from the running one).
C21_SaveMergesPersistsReconfigures ==
    /\ [][(savePc = "idle" /\ savePc' = "write") =>
            \E k \in SettingKeys :
                \A j \in SettingKeys \ {k} : settings'[j] = settings[j]]_vars
    /\ [][(savePc = "write" /\ savePc' = "idle") =>
            /\ storedSettings' = StoredObject(settings')
            /\ ~alarm'.on
            /\ settings'.autoSuspend =>
                   IF scanRunning THEN scanRerunRequested'
                   ELSE scanRunning' \/ fin'.done]_vars

\* A stored value is an object with a string url.
ObjectWithStringUrl(v) ==
    IF "json" \in DOMAIN v THEN v.json = "object" /\ v.urlType = "string"
    ELSE "url" \in DOMAIN v

\* C22: a run of loadSuspendedCache leaves in the Registry exactly the
\* stored entries that are objects with a string url, each as stored and
\* under its key, and leaves storage as it was; when the read fails it
\* leaves an empty Registry, and init goes on.
C22_RegistryLoadValidated ==
    [][inits'.cache < inits.cache =>
          /\ stored' = stored
          /\ IF inits'.cacheRead = "failed"
             THEN suspendedTabsCache' = EmptyCache
             ELSE \A t \in TabIds :
                      suspendedTabsCache'[t] =
                          IF stored[t] # NoRec /\ ObjectWithStringUrl(stored[t])
                          THEN stored[t] ELSE NoRec]_vars

C22_Witness ==
    /\ inits.cacheRead = "ok" /\ inits.cache = 0 /\ calls = 0
    /\ stored[1] = NoUrlEntry /\ stored[3] = NumberEntry
    /\ suspendedTabsCache = [EmptyCache EXCEPT ![2] = StoredRec(UrlB)]

\* A call in flight that has changed the Registry entry of its id.
ChangedRegistry(op) ==
    op.pc \in {"persist", "remove", "navPersist", "navUpdate", "uPersist",
               "uUpdate"}

\* Nothing is in flight: no call, no save, no init, no storage write.
AllFinished ==
    /\ \A o \in OpIds : ~InFlight(ops[o])
    /\ savePc = "idle"
    /\ inits.settings = 0 /\ inits.cache = 0
    /\ wq = << >>

\* C23: a run of init never takes from memory a change made by a suspend,
\* an unsuspend or a settings save in flight (the Registry entry the call
\* changed stays as the call left it, the fields the save set keep their
\* values), and once everything has finished the Registry and the settings
\* in memory equal what is stored.
C23_InitIdempotent ==
    /\ [][inits'.cache < inits.cache =>
            \A o \in OpIds :
                ChangedRegistry(ops[o]) =>
                    suspendedTabsCache'[ResultId(ops[o])] =
                        suspendedTabsCache[ResultId(ops[o])]]_vars
    /\ [][(inits'.settings < inits.settings /\ savePc = "write") =>
            \A k \in SettingKeys :
                saveVal[k] # storedSettings.val[k] => settings'[k] = saveVal[k]]_vars
    /\ [](AllFinished =>
            /\ suspendedTabsCache = stored
            /\ storedSettings = StoredObject(settings))

\* C24: while the close of the original tab of a replace is issued (the
\* call is at tabs.remove), the stored Registry holds the record of the
\* placeholder.
C24_PersistBeforeClose ==
    \A o \in OpIds :
        ops[o].pc = "remove" =>
            stored[ops[o].newTab] =
                MkRec(ops[o].tab, ops[o].reason, "replace", ops[o].newTab)

\* C25: a scan that has read its snapshot of the tabs and has finished has
\* gone through every tab of the snapshot and has created the next wake
\* timer, whatever happened to single tabs.
C25_ScanNeverAborted ==
    (fin.done /\ fin.thr # 0) => (fin.all /\ fin.sched)

\* The least element of a non-empty set of integers.
SetMin(S) == CHOOSE x \in S : \A y \in S : x <= y

\* The tabs of a finished scan's snapshot that are no placeholders and have
\* activity information, and the inactiveFor the scan computed for one.
Candidates ==
    { fin.snap[i] : i \in
        { j \in 1..Len(fin.snap) :
            /\ fin.snap[j].id # 0
            /\ ~isExtensionSuspendedPage(fin.snap[j].url)
            /\ fin.snap[j].lastAccessed # 0 } }

InactiveFor(tab) ==
    (CHOOSE r \in fin.seen : r.id = tab.id).inactiveFor

\* What the claim lets each tab contribute to the unclamped delay.
Contributions ==
    { fin.thr - InactiveFor(tab) :
        tab \in { c \in Candidates : InactiveFor(c) < fin.thr } }
    \cup
    { fin.thr :
        tab \in { c \in Candidates :
                    /\ InactiveFor(c) >= fin.thr
                    /\ eligibleForSuspend(c, "auto", settings) # "yes" } }

\* C26: when a scan has created its wake timer, it computed an inactiveFor
\* for every non-placeholder tab of its snapshot that has activity
\* information; it called suspendTab on exactly those that were inactive for
\* the threshold and eligible; and its unclamped delay is the minimum of
\* threshold - inactiveFor over the tabs not yet inactive for the threshold
\* and of the threshold over the inactive ineligible ones, or, when there is
\* none of either, it is Infinity and the timer's delay is 5 minutes.
C26_NextWake ==
    fin.sched =>
        /\ { r.id : r \in fin.seen } = { c.id : c \in Candidates }
        /\ fin.tried = { c.id : c \in
                          { d \in Candidates :
                              /\ InactiveFor(d) >= fin.thr
                              /\ eligibleForSuspend(d, "auto", settings) = "yes" } }
        /\ IF Contributions = {}
           THEN fin.inf /\ fin.delay = DefaultDelayMs
           ELSE ~fin.inf /\ fin.nextDelay = SetMin(Contributions)

\* C26 happens: a scan has created its wake timer after two tabs
\* contributed different delays, and the unclamped delay is below the
\* threshold.
C26_Witness ==
    /\ fin.sched
    /\ Cardinality(Contributions) >= 2
    /\ fin.nextDelay < fin.thr

\* The scan's suspendTab call is on tab t, and this step carries the
\* suspension out: it closes t (replace) or navigates it (fallback).
AutoSuspensionOf(t) ==
    /\ ops["scan"].kind = "suspend"
    /\ ops["scan"].reason = "auto"
    /\ ops["scan"].tabId = t
    /\ tabs[t].st = "open"
    /\ tabs'[t].st = "closed" \/ tabs'[t].url # tabs[t].url

\* C27: whenever a scan's suspension of a tab is carried out, the time since
\* the tab's ActivityMap entry is at least the threshold the scan runs with.
C27_NoPrematureAutoSuspend ==
    [][\A t \in TabIds :
          AutoSuspensionOf(t) => now - lastActivityMap[t] >= scan.thr]_vars

\* C28: when suspendTab has just returned replaced, the original tab is not
\* open, and the placeholder is in the tab strip at the index the original
\* had, pinned as the original was and active as the original was.  (The
\* model has one window: the placeholder is in the original's window by
\* construction.)
C28_ReplaceKeepsIdentity ==
    (lastOp.pc = "done" /\ lastOp.res = "replaced") =>
        /\ tabs[lastOp.tabId].st # "open"
        /\ tabs[lastOp.newTab].st = "open"
        /\ InStrip(strip, lastOp.newTab)
        /\ IndexOf(strip, lastOp.newTab) = lastOp.index
        /\ tabs[lastOp.newTab].pinned = lastOp.tab.pinned
        /\ tabs[lastOp.newTab].active = lastOp.tab.active

\* The placeholder tabs suspendTab created (the tabs opened after the
\* initial ones) that are still open.
OpenCreatedPlaceholders ==
    { p \in TabIds : /\ p >= 3
                     /\ tabs[p].st = "open"
                     /\ isExtensionSuspendedPage(tabs[p].url) }

\* C29: when calls of suspendTab on one tab have overlapped and all have
\* returned (and the writes issued have landed), every placeholder tab that
\* was created and is still open has one Registry record, under its own id,
\* holding the original URL its address carries; no record is keyed by the
\* id of the tab the record is of, or by a tab that is not open; and the
\* stored Registry equals the one in memory.
C29_ConcurrentSuspendsKeepRegistry ==
    (Quiet /\ wq = << >> /\ calls >= 2) =>
        /\ \A p \in OpenCreatedPlaceholders :
              /\ suspendedTabsCache[p] # NoRec
              /\ suspendedTabsCache[p].placeholderTabId = p
              /\ tabs[p].url = getSuspendedUrl(suspendedTabsCache[p].url,
                                               suspendedTabsCache[p].title)
              /\ \A k \in TabIds \ {p} :
                    suspendedTabsCache[k] # NoRec =>
                        suspendedTabsCache[k].placeholderTabId # p
        /\ \A k \in TabIds :
              suspendedTabsCache[k] # NoRec =>
                  /\ suspendedTabsCache[k].originalTabId # k
                  /\ tabs[k].st = "open"
        /\ stored = suspendedTabsCache

\* C30: when no call and no scan is in flight, every tab with an entry in
\* the ActivityMap is open.
C30_ActivityMapLive ==
    (Quiet /\ ~scanRunning) =>
        \A t \in TabIds : lastActivityMap[t] # 0 => tabs[t].st = "open"

\* The ids a batch has called the single-tab operation on, and the ids of
\* the tabs of its snapshot.
Attempted == { batch.invoked[i] : i \in 1..Len(batch.invoked) }

SnapIds == { batch.snap[i].id : i \in 1..Len(batch.snap) }

Durable == IF wq = << >> THEN stored ELSE wq[Len(wq)].val

\* C32: when the first call of suspendTab made on the worker (whose
\* Registry was empty until then, in memory and in storage) has just
\* returned success = false, the Registry is empty as before the call, in
\* memory and in storage.
C32_FailedSuspendLeavesNoRecord ==
    (/\ lastOp.pc = "done"
     /\ lastOp.kind = "suspend"
     /\ ~suspendResult(lastOp.res).success
     /\ calls = 1) =>
        /\ suspendedTabsCache = EmptyCache
        /\ Durable = EmptyCache

\* C33: after init, while autoSuspend is on with a positive threshold, a
\* scan is running or a wake timer is pending.
C33_SchedulerAlive ==
    (settings.autoSuspend /\ settings.autoSuspendTime > 0) =>
        (scanRunning \/ alarm.on)
====
